---- MODULE Spec2Model ----
(***************************************************************************)
(* Model of the Emby media importer add-on for Kodi                        *)
(* (Montellese/mediaimporter.emby).                                        *)
(*                                                                         *)
(*   Spec      : the import script (lib/importer.py: execImport,           *)
(*               importItems, forceSync) together with the persisted       *)
(*               synchronization settings (lib/settings.py).               *)
(*   SpecPages : importItems alone, on one view, for every total.          *)
(*   SpecObs   : the observer service (observer.py) and its provider       *)
(*               sessions (emby/provider_observer.py).                     *)
(*                                                                         *)
(* The host (Kodi, module xbmcmediaimport) and the Emby server are the     *)
(* environment: their answers are drawn nondeterministically.              *)
(***************************************************************************)
EXTENDS Integers, Sequences, FiniteSets, TLC

(***************************************************************************)
(* Bounds of the model.                                                    *)
(***************************************************************************)
\* Number of items the server returns per page. The add-on asks for
\* ITEM_REQUEST_LIMIT = 100 items per page (lib/importer.py:62, :683);
\* importItems itself never reads the limit, it only sees the pages.  The
\* model scales the limit down so that crawls of several pages occur.
PageLimit == 2
\* Largest TotalRecordCount of the single view crawled in SpecPages.
MaxTotal == 5
\* Number of execImport runs of one behaviour of Spec.
MaxRuns == 2
\* Number of times the user changes a synchronization related setting.
MaxSettingsChanges == 1
\* Number of page requests of one importItems call in SpecPages.
MaxRequests == 4
\* Number of Start and Stop requests waiting in the queue of one session.
MaxQueued == 2
\* Number of frames a session reads from its websocket in one Process call.
MaxFrames == 2
\* Number of callbacks of the host in one behaviour of SpecObs.
MaxCallbacks == 3
\* Number of iterations of the poll loop in one behaviour of SpecObs.
MaxTicks == 2
\* Number of locally imported items a removed id is resolved against.
MaxLocalItems == 2
\* Number of values of the settings of a media import (an updated import
\* differs from the one it replaces in its settings).
MaxImportSettings == 2
\* Number of calls of Server._request in one behaviour of SpecRequest.
MaxApiCalls == 2

(***************************************************************************)
(* Small helpers on sequences.                                             *)
(***************************************************************************)
Min(a, b) == IF a <= b THEN a ELSE b

Max(a, b) == IF a >= b THEN a ELSE b

Range(s) == {s[i] : i \in 1..Len(s)}

\* list.remove(x): removes the first occurrence of x
RECURSIVE RemoveFirst(_, _)
RemoveFirst(s, x) ==
    IF s = <<>> THEN <<>>
    ELSE IF Head(s) = x THEN Tail(s)
    ELSE <<Head(s)>> \o RemoveFirst(Tail(s), x)

(***************************************************************************)
(* Media types (lib/kodi.py EMBY_MEDIATYPES).                              *)
(***************************************************************************)
MediaTypeMovie == "movie"
MediaTypeVideoCollection == "set"
MediaTypeTvShow == "tvshow"
EMBY_MEDIATYPE_BOXSET == "BoxSet"

\* Api.getEmbyMediaType: the Emby media type of a Kodi media type, "" (None)
\* for an unsupported one
getEmbyMediaType(mediaType) ==
    CASE mediaType = MediaTypeMovie -> "Movie"
      [] mediaType = MediaTypeVideoCollection -> EMBY_MEDIATYPE_BOXSET
      [] mediaType = MediaTypeTvShow -> "Series"
      [] OTHER -> ""

(***************************************************************************)
(* Synchronization settings (lib/settings.py).                             *)
(*                                                                         *)
(* A settings value is a record                                            *)
(*   useKodiCompanion, allowDirectPlay   (provider settings)               *)
(*   importViews, specificViews, importCollections   (import settings)     *)
(***************************************************************************)
SETTING_IMPORT_VIEWS_OPTION_ALL == "all"
SETTING_IMPORT_VIEWS_OPTION_SPECIFIC == "specific"

\* the value of a hash setting that was never written or was reset ('')
NoHash == <<>>

\* ImportSettings.GetLibraryViews
GetLibraryViews(s) ==
    IF s.importViews # SETTING_IMPORT_VIEWS_OPTION_SPECIFIC THEN <<>>
    ELSE s.specificViews

\* CalculateHash leaving the library views out of hashObject
CalculateHash_WithoutViews(mediaTypes, s) ==
    << s.useKodiCompanion,
       s.allowDirectPlay,
       IF MediaTypeMovie \in Range(mediaTypes) \/ MediaTypeVideoCollection \in Range(mediaTypes)
       THEN <<s.importCollections>>
       ELSE <<>> >>

\* SynchronizationSettings.CalculateHash (save=False): the SHA-1 of the JSON
\* serialization of hashObject.  SHA-1 is modelled as injective on the
\* serialized object: the hash IS the tuple of the serialized values, and a
\* hex digest is never the empty string.
CalculateHash(mediaTypes, s) ==
    << s.useKodiCompanion,
       s.allowDirectPlay,
       GetLibraryViews(s),
       IF MediaTypeMovie \in Range(mediaTypes) \/ MediaTypeVideoCollection \in Range(mediaTypes)
       THEN <<s.importCollections>>
       ELSE <<>> >>

\* SynchronizationSettings.HaveChanged: whether the stored hash differs from
\* the computed one
HaveChanged(mediaTypes, s, oldHash) == oldHash # CalculateHash(mediaTypes, s)

\* HaveChanged that detects the change without saving the new hash
HashAfterHaveChanged_NotSaved(mediaTypes, s, oldHash) == oldHash

\* the hash stored after HaveChanged(..., save=True)
HashAfterHaveChanged(mediaTypes, s, oldHash) ==
    IF HaveChanged(mediaTypes, s, oldHash) THEN CalculateHash(mediaTypes, s) ELSE oldHash

(***************************************************************************)
(* The Emby server's catalogue (environment).                              *)
(***************************************************************************)
ServerViews == <<"V1", "V2">>

\* the library views of the server of the example
ExampleViews == <<"L1", "L2">>

\* ITEM_REQUEST_LIMIT: the Limit option of every /Items request
ITEM_REQUEST_LIMIT == 100

\* the items of Emby type embyType below a parent (a view or a BoxSet)
Catalogue(parent, embyType) ==
    CASE parent = "V1" /\ embyType = "Movie"  -> <<"m1", "m2", "m3">>
      [] parent = "V2" /\ embyType = "Movie"  -> <<"m4">>
      [] parent = "V1" /\ embyType = "Series" -> <<>>
      [] parent = "V2" /\ embyType = "Series" -> <<"t1", "t2", "t3">>
      [] parent = "V1" /\ embyType = "BoxSet" -> <<"c1">>
      [] parent = "V2" /\ embyType = "BoxSet" -> <<"c2">>
      [] parent = "c1" /\ embyType = "Movie"  -> <<"m3", "m5">>
      \* the server of the example: two views of 10 and 5 movies and one
      \* collection C1 that contains the movie M3 of the first view
      [] parent = "L1" /\ embyType = "Movie"  ->
            <<"M1", "M2", "M3", "M4", "M5", "M6", "M7", "M8", "M9", "M10">>
      [] parent = "L2" /\ embyType = "Movie"  -> <<"N1", "N2", "N3", "N4", "N5">>
      [] parent = "L1" /\ embyType = "BoxSet" -> <<"C1">>
      [] parent = "C1" /\ embyType = "Movie"  -> <<"M3">>
      [] OTHER -> <<>>

\* items saved on the server after the import's last synchronization
ChangedSinceLastSync == {"m3", "t2"}

\* BoxSet objects of the catalogue that carry no Name property
BoxsetsWithoutName == {"c2"}

\* items whose only media source supports Direct Play but not Direct Stream
DirectPlayOnly == {"m2"}

\* what the server answers to /Items?ParentId=parent&IncludeItemTypes=embyType
\* [&MinDateLastSavedForUser=lastSync]
ServerItems(parent, embyType, filtered) ==
    LET all == Catalogue(parent, embyType)
    IN  IF filtered THEN SelectSeq(all, LAMBDA i : i \in ChangedSinceLastSync) ELSE all

(***************************************************************************)
(* Host items (xbmcgui.ListItem) built from Emby objects (lib/kodi.py).    *)
(***************************************************************************)
\* Api.getPlaybackUrl / Api.toFileItem: whether an Emby object converts to a
\* host item ("cannot import item ... because it doesn't support Direct
\* Stream")
Convertible(id, allowDirectPlay) == allowDirectPlay \/ id \notin DirectPlayOnly

\* Api.toFileItem: the host item of an Emby object; its path is determined by
\* the Emby id
toFileItem(id) == [id |-> id, collection |-> ""]

\* Api.setCollection
setCollection(item, boxsetName) == [item EXCEPT !.collection = boxsetName]

BoxsetName(id) == id


\* a raw Emby object as importItems(raw=True) collects it
RawObject(id) == [id |-> id, collection |-> ""]

\* xbmcmediaimport.getImportedItems(handle, mediaType): the items the host
\* has imported before, by their Emby id ("" for an item without one); the
\* host keeps one item per Emby id within an import
ImportedIds(mediaType) ==
    CASE mediaType = MediaTypeMovie  -> <<"", "m1", "r1">>
      [] mediaType = MediaTypeTvShow -> <<"t1", "r3">>
      [] OTHER -> <<>>

getImportedItems(mediaType) ==
    [i \in 1..Len(ImportedIds(mediaType)) |-> toFileItem(ImportedIds(mediaType)[i])]

\* Api.getEmbyItemIdFromItem ("" stands for None)
getEmbyItemIdFromItem(localItem) == localItem.id

\* Api.matchImportedItemIdsToLocalItems with one list of ids: the loop over
\* the local items, with the matched items and the ids still to process
RECURSIVE MatchLoop(_, _, _)
MatchLoop(localItems, matched, itemIdsToProcess) ==
    IF localItems = <<>> \/ itemIdsToProcess = <<>> THEN matched
    ELSE LET localItem == Head(localItems)
             localItemId == getEmbyItemIdFromItem(localItem)
         IN  IF localItemId = "" THEN MatchLoop(Tail(localItems), matched, itemIdsToProcess)
             ELSE IF localItemId \notin Range(itemIdsToProcess)
                  THEN MatchLoop(Tail(localItems), matched, itemIdsToProcess)
                  ELSE MatchLoop(Tail(localItems), Append(matched, localItem),
                                 RemoveFirst(itemIdsToProcess, localItemId))

\* the matching without the test against the imported ids
matchImportedItemIdsToLocalItems_NoTest(localItems, importedItemIds) ==
    SelectSeq(localItems, LAMBDA localItem : getEmbyItemIdFromItem(localItem) # "")

matchImportedItemIdsToLocalItems(localItems, importedItemIds) ==
    MatchLoop(localItems, <<>>, importedItemIds)

\* the list itemIdsToProcess when the loop of
\* matchImportedItemIdsToLocalItems is left
RECURSIVE MatchRemaining(_, _)
MatchRemaining(localItems, itemIdsToProcess) ==
    IF localItems = <<>> \/ itemIdsToProcess = <<>> THEN itemIdsToProcess
    ELSE LET localItemId == getEmbyItemIdFromItem(Head(localItems))
         IN  IF localItemId = "" \/ localItemId \notin Range(itemIdsToProcess)
             THEN MatchRemaining(Tail(localItems), itemIdsToProcess)
             ELSE MatchRemaining(Tail(localItems), RemoveFirst(itemIdsToProcess, localItemId))

\* the loop removing the matched ids from the list of the caller
IdsAfterMatch_InPlace(importedItemIds, itemIdsToProcess) == itemIdsToProcess

\* the caller's list of ids after matchImportedItemIdsToLocalItems: the loop
\* removes the matched ids from a copy (importedItemIds.copy())
IdsAfterMatch(importedItemIds, itemIdsToProcess) == importedItemIds

\* "removedItem in removedItems" of execImport: removedItem is an id (a str),
\* removedItems are host items (xbmcgui.ListItem); a ListItem never equals a
\* str
ListItemEqualsId(item, id) == FALSE

\* the sync queue's removed ids kept after a media type was handled
RemainingRemoved(itemsRemoved, removedItems) ==
    SelectSeq(itemsRemoved,
              LAMBDA r : \E i \in 1..Len(removedItems) : ListItemEqualsId(removedItems[i], r))

(***************************************************************************)
(* importItems (lib/importer.py:411-460).                                  *)
(*                                                                         *)
(* A crawl is the state of one importItems call:                           *)
(*   status    "idle" (no call), "running", "done" (returned items),       *)
(*             "none" (returned None)                                      *)
(*   requests  the StartIndex of every page request, in order              *)
(*   why       why None was returned: "cancelled" (shouldCancel answered   *)
(*             true) or "invalid" (the error logged for a bad response)    *)
(***************************************************************************)
NoCrawl ==
    [status |-> "idle", parent |-> "", embyType |-> "", raw |-> FALSE, filtered |-> FALSE,
     allowDirectPlay |-> TRUE, startIndex |-> 0, totalCount |-> 0, items |-> <<>>,
     requests |-> <<>>, why |-> ""]

\* the state of importItems when its loop is entered
NewCrawl(parent, embyType, raw, filtered, allowDirectPlay) ==
    [NoCrawl EXCEPT !.status = "running", !.parent = parent, !.embyType = embyType,
                    !.raw = raw, !.filtered = filtered, !.allowDirectPlay = allowDirectPlay]

\* page responses of the server: a well-formed one, and the ones importItems
\* rejects (nothing at all, no Items, no TotalRecordCount)
ResponseKinds == {"ok", "empty", "noItems", "noTotal"}

\* the well-formed answer to a request for at most n items from startIndex on
PageOf(all, startIndex, n) ==
    [kind |-> "ok",
     Items |-> SubSeq(all, startIndex + 1, Min(startIndex + n, Len(all))),
     TotalRecordCount |-> Len(all)]

BadResponse(kind) == [kind |-> kind, Items |-> <<>>, TotalRecordCount |-> 0]

\* the items appended for the Emby objects of a page
Converted(c, page) ==
    IF c.raw THEN [i \in 1..Len(page) |-> RawObject(page[i])]
    ELSE LET ok == SelectSeq(page, LAMBDA id : Convertible(id, c.allowDirectPlay))
         IN  [i \in 1..Len(ok) |-> toFileItem(ok[i])]

\* the loop stopping only beyond the reported total
AllRetrieved_Beyond(startIndex, totalCount) == startIndex > totalCount

\* whether the loop of importItems stops after a page
AllRetrieved(startIndex, totalCount) == startIndex >= totalCount

\* importItems leaving its loop on a cancellation (break) and returning the
\* items retrieved so far, instead of returning None
PageStep_BreakOnCancel(c, cancelBefore, resp, cancelAt) ==
    IF cancelBefore THEN [c EXCEPT !.status = "done", !.why = "cancelled"]
    ELSE LET c1 == [c EXCEPT !.requests = Append(@, c.startIndex)]
         IN  IF resp.kind # "ok" THEN [c1 EXCEPT !.status = "none", !.why = "invalid"]
             ELSE LET page == resp.Items
                      cancelled == cancelAt \in 1..Len(page)
                      kept == IF cancelled THEN SubSeq(page, 1, cancelAt - 1) ELSE page
                      start == c.startIndex + (IF cancelled THEN cancelAt ELSE Len(page))
                  IN  [c1 EXCEPT !.totalCount = resp.TotalRecordCount,
                                 !.startIndex = start,
                                 !.items = c.items \o Converted(c, kept),
                                 !.why = IF cancelled THEN "cancelled" ELSE "",
                                 !.status = IF cancelled \/ AllRetrieved(start, resp.TotalRecordCount)
                                            THEN "done" ELSE "running"]

\* importItems returning the items retrieved so far after a page response
\* without Items or TotalRecordCount, instead of returning None
PageStep_InvalidReturnsItems(c, cancelBefore, resp, cancelAt) ==
    IF cancelBefore THEN [c EXCEPT !.status = "none", !.why = "cancelled"]
    ELSE LET c1 == [c EXCEPT !.requests = Append(@, c.startIndex)]
         IN  IF resp.kind # "ok" THEN [c1 EXCEPT !.status = "done", !.why = "invalid"]
             ELSE LET page == resp.Items
                      total == resp.TotalRecordCount
                      cancelled == cancelAt \in 1..Len(page)
                      seen == IF cancelled THEN cancelAt ELSE Len(page)
                      kept == IF cancelled THEN SubSeq(page, 1, cancelAt - 1) ELSE page
                      start == c.startIndex + seen
                  IN  [c1 EXCEPT !.totalCount = total,
                                 !.startIndex = start,
                                 !.items = c.items \o Converted(c, kept),
                                 !.why = IF cancelled THEN "cancelled" ELSE "",
                                 !.status = IF cancelled THEN "none"
                                            ELSE IF AllRetrieved(start, total) THEN "done"
                                            ELSE "running"]

\* One iteration of the loop of importItems.
\*   cancelBefore  what shouldCancel answers before the page request
\*   resp          the server's answer to the page request
\*   cancelAt      the item of the page at which shouldCancel first answers
\*                 true (0: at none)
PageStep(c, cancelBefore, resp, cancelAt) ==
    IF cancelBefore THEN [c EXCEPT !.status = "none", !.why = "cancelled"]
    ELSE LET c1 == [c EXCEPT !.requests = Append(@, c.startIndex)]
         IN  IF resp.kind # "ok" THEN [c1 EXCEPT !.status = "none", !.why = "invalid"]
             ELSE LET page == resp.Items
                      total == resp.TotalRecordCount
                      cancelled == cancelAt \in 1..Len(page)
                      seen == IF cancelled THEN cancelAt ELSE Len(page)
                      kept == IF cancelled THEN SubSeq(page, 1, cancelAt - 1) ELSE page
                      start == c.startIndex + seen
                  IN  [c1 EXCEPT !.totalCount = total,
                                 !.startIndex = start,
                                 !.items = c.items \o Converted(c, kept),
                                 !.why = IF cancelled THEN "cancelled" ELSE "",
                                 !.status = IF cancelled THEN "none"
                                            ELSE IF AllRetrieved(start, total) THEN "done"
                                            ELSE "running"]


(***************************************************************************)
(* Provider sessions (emby/provider_observer.py): ProviderObserver.        *)
(*                                                                         *)
(* A session is a record                                                   *)
(*   id             the key of the session in EmbyObserverService          *)
(*   actions        _actions: the Start and Stop requests not yet processed*)
(*   connected      _connected                                             *)
(*   imports        _imports                                               *)
(*   mediaProvider  _mediaProvider (NoProvider for None)                   *)
(*   settings       _settings is not None                                  *)
(*   server         _server is not None                                    *)
(*   websocket      _websocket: "none", "created", "connected", "closed"   *)
(***************************************************************************)
\* A media provider as the host hands it to the callbacks: its identifier,
\* the values compareMediaProviders reads besides the identifier (friendly
\* name, device id, user, password; rev stands for them), whether
\* prepareSettings() succeeds, and its base path (the address of the server,
\* getBasePath(), from which Server builds its URLs).
MediaProviders ==
    { [id |-> "p1", rev |-> 1, settingsOk |-> TRUE, basePath |-> "a"],
      [id |-> "p1", rev |-> 2, settingsOk |-> TRUE, basePath |-> "a"],
      [id |-> "p1", rev |-> 1, settingsOk |-> TRUE, basePath |-> "b"],
      [id |-> "p1", rev |-> 1, settingsOk |-> FALSE, basePath |-> "a"],
      [id |-> "p2", rev |-> 1, settingsOk |-> TRUE, basePath |-> "a"],
      [id |-> "p2", rev |-> 1, settingsOk |-> FALSE, basePath |-> "a"] }

NoProvider == [id |-> "", rev |-> 0, settingsOk |-> FALSE, basePath |-> ""]

\* the media imports of the host; they belong to provider p1
MediaImports ==
    { [provider |-> "p1", path |-> "emby://p1/", mediaTypes |-> <<MediaTypeMovie>>],
      [provider |-> "p1", path |-> "emby://p1/",
       mediaTypes |-> <<MediaTypeMovie, MediaTypeTvShow>>] }

NoImport == [provider |-> "", path |-> "", mediaTypes |-> <<>>]

\* Api.compareMediaProviders
compareMediaProviders(lhs, rhs) ==
    /\ lhs # NoProvider
    /\ rhs # NoProvider
    /\ lhs.id = rhs.id
    /\ lhs.settingsOk
    /\ rhs.settingsOk
    /\ lhs.rev = rhs.rev

\* ProviderObserver.__init__
NewObserver(id) ==
    [id |-> id, actions |-> <<>>, connected |-> FALSE, imports |-> <<>>,
     mediaProvider |-> NoProvider, settings |-> FALSE, server |-> FALSE,
     websocket |-> "none", log |-> <<>>]

\* the fields of a session that _StartAction, _StopAction and _Reset assign
Snapshot(o) ==
    [connected |-> o.connected, mediaProvider |-> o.mediaProvider, settings |-> o.settings,
     server |-> o.server, websocket |-> o.websocket]

\* History of one Process call (log): the actions taken from the queue
\* ("Start", "Stop"), the calls they make ("close": websocket.close(),
\* "authenticate": Server(...).Authenticate(force=True), "connect":
\* websocket.connect(url)) and their ends ("return", ok false when an
\* exception left the action), each with the provider it concerns, its
\* success and the session at that moment.
Logged(o, op, provider, ok) ==
    [o EXCEPT !.log = Append(@, [op |-> op, provider |-> provider, ok |-> ok,
                                 state |-> Snapshot(o)])]

\* ProviderObserver._FindImportIndices
FindImportIndices(o, mediaImport) ==
    { i \in 1..Len(o.imports) :
        /\ o.imports[i].path = mediaImport.path
        /\ o.imports[i].mediaTypes = mediaImport.mediaTypes }

\* AddImport without the search for a matching import
AddImport_Append(o, mediaImport) == [o EXCEPT !.imports = Append(@, mediaImport)]

\* ProviderObserver.AddImport
AddImport(o, mediaImport) ==
    LET matching == FindImportIndices(o, mediaImport)
    IN  IF matching # {}
        THEN LET first == CHOOSE i \in matching : \A j \in matching : i <= j
             IN  [o EXCEPT !.imports[first] = mediaImport]
        ELSE [o EXCEPT !.imports = Append(@, mediaImport)]

\* RemoveImport leaving the list of imports as it is
RemoveImport_Keep(o, mediaImport) == o

\* ProviderObserver.RemoveImport
RemoveImport(o, mediaImport) ==
    LET matching == FindImportIndices(o, mediaImport)
    IN  IF matching = {} THEN o
        ELSE LET first == CHOOSE i \in matching : \A j \in matching : i <= j
             IN  [o EXCEPT !.imports = SubSeq(@, 1, first - 1) \o SubSeq(@, first + 1, Len(@))]

\* ProviderObserver.Start and ProviderObserver.Stop: the request is queued
Start(o, mediaProvider) ==
    [o EXCEPT !.actions = Append(@, [action |-> "Start", data |-> mediaProvider])]

\* Stop putting its request in front of the queued ones
Stop_AtFront(o) ==
    [o EXCEPT !.actions = <<[action |-> "Stop", data |-> NoProvider]>> \o @]

Stop(o) ==
    [o EXCEPT !.actions = Append(@, [action |-> "Stop", data |-> NoProvider])]

\* _Reset forgetting the connection only, not the server and the provider
Reset_OnlyConnected(o) == [o EXCEPT !.connected = FALSE]

\* _Reset keeping the Server instance
Reset_KeepServer(o) == [o EXCEPT !.connected = FALSE, !.mediaProvider = NoProvider]

\* _Reset forgetting the imports as well
Reset_ClearImports(o) ==
    [o EXCEPT !.connected = FALSE, !.server = FALSE, !.mediaProvider = NoProvider,
              !.imports = <<>>]

\* ProviderObserver._Reset
Reset(o) ==
    [o EXCEPT !.connected = FALSE, !.server = FALSE, !.mediaProvider = NoProvider]

\* _StopAction without the test of _connected: the websocket is closed and
\* the session reset on every Stop
StopAction_Unguarded(o, restart) ==
    Reset([Logged(o, "close", o.mediaProvider, TRUE) EXCEPT !.websocket = "closed"])

\* ProviderObserver._StopAction
StopAction(o, restart) ==
    IF ~o.connected THEN o
    ELSE Reset([Logged(o, "close", o.mediaProvider, TRUE) EXCEPT !.websocket = "closed"])

\* _StartAction without the test for an unchanged provider: every Start
\* stops the session and connects again
StartAction_AlwaysReconnect(o, mediaProvider, authenticated, reachable) ==
    LET o1 == StopAction(o, TRUE)
        o2 == [o1 EXCEPT !.mediaProvider = mediaProvider,
                         !.settings = mediaProvider.settingsOk]
        o3 == Logged(o2, "authenticate", mediaProvider, authenticated)
        o4 == Logged([o3 EXCEPT !.server = TRUE, !.websocket = "created"],
                     "connect", mediaProvider, reachable)
    IN  IF ~o2.settings THEN [obs |-> o2, raised |-> TRUE]
        ELSE IF ~authenticated THEN [obs |-> Reset(o3), raised |-> FALSE]
        ELSE IF ~reachable THEN [obs |-> Reset(o4), raised |-> FALSE]
        ELSE [obs |-> [o4 EXCEPT !.websocket = "connected", !.connected = TRUE],
              raised |-> FALSE]

\* ProviderObserver._StartAction: the session afterwards and whether the
\* RuntimeError 'cannot prepare media provider settings' was raised.
\*   authenticated  Server(...) was created and Authenticate(force=True)
\*                  succeeded
\*   reachable      websocket.connect(url) succeeded
StartAction(o, mediaProvider, authenticated, reachable) ==
    IF o.connected /\ compareMediaProviders(o.mediaProvider, mediaProvider)
    THEN [obs |-> [o EXCEPT !.mediaProvider = mediaProvider,
                            !.settings = mediaProvider.settingsOk],
          raised |-> FALSE]
    ELSE LET o1 == StopAction(o, TRUE)
             o2 == [o1 EXCEPT !.mediaProvider = mediaProvider,
                              !.settings = mediaProvider.settingsOk]
             o3 == Logged(o2, "authenticate", mediaProvider, authenticated)
             o4 == Logged([o3 EXCEPT !.server = TRUE, !.websocket = "created"],
                          "connect", mediaProvider, reachable)
         IN  IF ~o2.settings THEN [obs |-> o2, raised |-> TRUE]
             ELSE IF ~authenticated THEN [obs |-> Reset(o3), raised |-> FALSE]
             ELSE IF ~reachable THEN [obs |-> Reset(o4), raised |-> FALSE]
             ELSE [obs |-> [o4 EXCEPT !.websocket = "connected", !.connected = TRUE],
                   raised |-> FALSE]

\* ProviderObserver._ProcessActions: the outcomes of processing the queued
\* actions in order, over the answers of the server to each Start.  When a
\* Start raises, the loop is left and the queue is not cleared.
RECURSIVE ProcessActionsFrom(_, _)
ProcessActionsFrom(o, actions) ==
    IF actions = <<>> THEN {[obs |-> [o EXCEPT !.actions = <<>>], raised |-> FALSE]}
    ELSE LET a == Head(actions)
             taken == Logged(o, a.action, a.data, TRUE)
         IN  IF a.action = "Stop"
             THEN ProcessActionsFrom(Logged(StopAction(taken, FALSE), "return", a.data, TRUE),
                                     Tail(actions))
             ELSE UNION { IF r.raised THEN {[r EXCEPT !.obs = Logged(@, "return", a.data, FALSE)]}
                          ELSE ProcessActionsFrom(Logged(r.obs, "return", a.data, TRUE),
                                                  Tail(actions)) :
                          r \in { StartAction(taken, a.data, authenticated, reachable) :
                                  authenticated \in BOOLEAN, reachable \in BOOLEAN } }

ProcessActions(o) == ProcessActionsFrom(o, o.actions)

(***************************************************************************)
(* Frames of the websocket and their processing.                           *)
(***************************************************************************)
WS_MESSAGE_TYPE_LIBRARY_CHANGED == "LibraryChanged"
WS_MESSAGE_TYPE_USER_DATA_CHANGED == "UserDataChanged"
WS_MESSAGE_TYPE_SERVER_SHUTTING_DOWN == "ServerShuttingDown"
WS_MESSAGE_TYPE_SERVER_RESTARTING == "ServerRestarting"

MediaImportChangesetTypeAdded == "added"
MediaImportChangesetTypeChanged == "changed"
MediaImportChangesetTypeRemoved == "removed"

\* the Data of a message: the id lists of a LibraryChanged message and the
\* ItemId values of the UserDataList of a UserDataChanged message ("" for an
\* entry without a usable id); complete is false when the keys the handler
\* reads are missing
NoData ==
    [complete |-> FALSE, ItemsAdded |-> <<>>, ItemsUpdated |-> <<>>, ItemsRemoved |-> <<>>,
     UserDataList |-> <<>>]

LibraryChangedData ==
    [NoData EXCEPT !.complete = TRUE, !.ItemsAdded = <<"m1", "x1">>,
                   !.ItemsUpdated = <<"t1">>, !.ItemsRemoved = <<"r1", "r9">>]

UserDataChangedData ==
    [NoData EXCEPT !.complete = TRUE, !.UserDataList = <<"t1", "", "m1">>]

\* a LibraryChanged message with an id ("e1") whose request gets no response
LibraryChangedDataNoResponse ==
    [NoData EXCEPT !.complete = TRUE, !.ItemsAdded = <<"m2", "e1">>,
                   !.ItemsUpdated = <<"t1">>, !.ItemsRemoved = <<"r3">>]

\* A frame: json is what json.loads makes of it ("unparsable": it raises,
\* "null": a false value, "object": a dictionary), hasType and hasData tell
\* whether the dictionary has the keys MessageType and Data.
Frame(json, hasType, hasData, messageType, data) ==
    [json |-> json, hasType |-> hasType, hasData |-> hasData, MessageType |-> messageType,
     Data |-> data]

Frames ==
    { Frame("unparsable", FALSE, FALSE, "", NoData),
      Frame("null", FALSE, FALSE, "", NoData),
      Frame("object", FALSE, TRUE, "", NoData),
      Frame("object", TRUE, FALSE, WS_MESSAGE_TYPE_LIBRARY_CHANGED, NoData),
      Frame("object", TRUE, TRUE, "KeepAlive", NoData),
      Frame("object", TRUE, TRUE, WS_MESSAGE_TYPE_SERVER_RESTARTING, NoData),
      Frame("object", TRUE, TRUE, WS_MESSAGE_TYPE_SERVER_SHUTTING_DOWN, NoData),
      Frame("object", TRUE, TRUE, WS_MESSAGE_TYPE_LIBRARY_CHANGED, LibraryChangedData),
      Frame("object", TRUE, TRUE, WS_MESSAGE_TYPE_LIBRARY_CHANGED, NoData),
      Frame("object", TRUE, TRUE, WS_MESSAGE_TYPE_LIBRARY_CHANGED, LibraryChangedDataNoResponse),
      Frame("object", TRUE, TRUE, WS_MESSAGE_TYPE_USER_DATA_CHANGED, UserDataChangedData) }

\* how the reading of a tick ends: the receive times out, returns None, or
\* raises another exception
ReceiveEnds == {"timeout", "none", "error"}

\* the media type of an item of the server, "" for an id the server does not
\* know
ItemMediaType(id) ==
    CASE id \in {"m1", "m2", "m3", "m4", "m5", "r1", "r2"} -> MediaTypeMovie
      [] id \in {"t1", "t2", "t3", "r3"} -> MediaTypeTvShow
      [] OTHER -> ""

NoItem == [id |-> "", mediaType |-> ""]

\* Library.GetItem leaves with an exception: the request got no response, so
\* that Request._handleRequestAsJson raises ValueError('invalid result')
GetItemRaises(itemId) == itemId = "e1"

\* the ids for which _GetItemDetails is called by a handler that goes through
\* ids: all of them up to the first whose request raises
RECURSIVE Fetched(_)
Fetched(ids) ==
    IF ids = <<>> THEN <<>>
    ELSE IF GetItemRaises(Head(ids)) THEN <<Head(ids)>>
    ELSE <<Head(ids)>> \o Fetched(Tail(ids))

\* ProviderObserver._GetItemDetails: Library.GetItem and Api.toFileItem
GetItemDetails(itemId) ==
    IF ItemMediaType(itemId) = "" \/ itemId \in {"r1", "r2", "r3"} THEN NoItem
    ELSE [id |-> itemId, mediaType |-> ItemMediaType(itemId)]

\* xbmcmediaimport.getImportedItemsByProvider: the items of all imports of
\* the provider; dbId tells the host's items apart, two imports of the
\* provider have imported the movie "r1"
getImportedItemsByProvider ==
    LET ids == ImportedIds(MediaTypeMovie) \o ImportedIds(MediaTypeTvShow) \o <<"r1">>
    IN  [i \in 1..Len(ids) |->
            [id |-> ids[i], mediaType |-> ItemMediaType(ids[i]), dbId |-> i]]

\* ProviderObserver._ProcessChangedItems
ProcessChangedItems(items, changesetType) ==
    LET usable == SelectSeq(items, LAMBDA id : id # "")
    IN  [i \in 1..Len(usable) |-> [changeset |-> changesetType, itemId |-> usable[i]]]

\* _FindImportForItem taking the last matching import
FindImportForItem_Last(o, item) ==
    LET matchingImports ==
            SelectSeq(o.imports, LAMBDA mediaImport : item.mediaType \in Range(mediaImport.mediaTypes))
    IN  IF matchingImports = <<>> THEN NoImport ELSE matchingImports[Len(matchingImports)]

\* ProviderObserver._FindImportForItem
FindImportForItem(o, item) ==
    LET matchingImports ==
            SelectSeq(o.imports, LAMBDA mediaImport : item.mediaType \in Range(mediaImport.mediaTypes))
    IN  IF matchingImports = <<>> THEN NoImport ELSE matchingImports[1]

\* ProviderObserver._ChangeItems: the changeImportedItems calls, one for
\* every media import that has changed items
RECURSIVE ChangeItemsFrom(_, _, _)
ChangeItemsFrom(o, items, calls) ==
    IF items = <<>> THEN calls
    ELSE LET entry == Head(items)
             mediaImport == FindImportForItem(o, entry.item)
             changed == [changeset |-> entry.changeset, item |-> entry.item]
             known == \E k \in 1..Len(calls) : calls[k].mediaImport = mediaImport
             next == IF mediaImport = NoImport THEN calls
                     ELSE IF known
                          THEN [k \in 1..Len(calls) |->
                                   IF calls[k].mediaImport = mediaImport
                                   THEN [calls[k] EXCEPT !.items = Append(@, changed)]
                                   ELSE calls[k]]
                          ELSE Append(calls, [mediaImport |-> mediaImport, items |-> <<changed>>])
         IN  ChangeItemsFrom(o, Tail(items), next)

ChangeItems(o, items) == ChangeItemsFrom(o, items, <<>>)

\* the loop of _ProcessMessageLibraryChanged that resolves the changed ids
RECURSIVE ResolveChangedItems(_)
\* the loop taking the last of the imported items that carry a removed id
ResolveChangedItems_Last(changedLibraryItems) ==
    IF changedLibraryItems = <<>> THEN <<>>
    ELSE LET c == Head(changedLibraryItems)
             matchingItems == SelectSeq(getImportedItemsByProvider, LAMBDA i : i.id = c.itemId)
             item == IF c.changeset # MediaImportChangesetTypeRemoved THEN GetItemDetails(c.itemId)
                     ELSE IF matchingItems = <<>> THEN NoItem
                     ELSE matchingItems[Len(matchingItems)]
         IN  (IF item = NoItem THEN <<>> ELSE <<[changeset |-> c.changeset, item |-> item]>>)
             \o ResolveChangedItems(Tail(changedLibraryItems))

ResolveChangedItems(changedLibraryItems) ==
    IF changedLibraryItems = <<>> THEN <<>>
    ELSE LET c == Head(changedLibraryItems)
             matchingItems == SelectSeq(getImportedItemsByProvider, LAMBDA i : i.id = c.itemId)
             item == IF c.changeset # MediaImportChangesetTypeRemoved THEN GetItemDetails(c.itemId)
                     ELSE IF matchingItems = <<>> THEN NoItem
                     ELSE matchingItems[1]
         IN  (IF item = NoItem THEN <<>> ELSE <<[changeset |-> c.changeset, item |-> item]>>)
             \o ResolveChangedItems(Tail(changedLibraryItems))

\* What a message handler did: whether an exception left it, the ids it
\* passed to _GetItemDetails (fetched), the changed items it handed to
\* _ChangeItems (items) and the changeImportedItems calls made (calls).
Handled(raised, fetched, items, calls) ==
    [raised |-> raised, fetched |-> fetched, items |-> items, calls |-> calls]

\* ProviderObserver._ProcessMessageLibraryChanged: an exception of a request
\* leaves the loop over the changed ids before _ChangeItems is reached
ProcessMessageLibraryChanged(o, data) ==
    LET changedLibraryItems ==
            ProcessChangedItems(data.ItemsAdded, MediaImportChangesetTypeAdded)
            \o ProcessChangedItems(data.ItemsUpdated, MediaImportChangesetTypeChanged)
            \o ProcessChangedItems(data.ItemsRemoved, MediaImportChangesetTypeRemoved)
        requested == SelectSeq(changedLibraryItems,
                               LAMBDA c : c.changeset # MediaImportChangesetTypeRemoved)
        ids == [i \in 1..Len(requested) |-> requested[i].itemId]
        changedItems == ResolveChangedItems(changedLibraryItems)
    IN  IF \E i \in 1..Len(ids) : GetItemRaises(ids[i])
        THEN Handled(TRUE, Fetched(ids), <<>>, <<>>)
        ELSE Handled(FALSE, Fetched(ids), changedItems, ChangeItems(o, changedItems))

\* ProviderObserver._ProcessMessageUserDataChanged
ProcessMessageUserDataChanged(o, data) ==
    LET ids == SelectSeq(data.UserDataList, LAMBDA id : id # "")
        usable == SelectSeq(ids, LAMBDA id : GetItemDetails(id) # NoItem)
        changedItems == [i \in 1..Len(usable) |->
                            [changeset |-> MediaImportChangesetTypeChanged,
                             item |-> GetItemDetails(usable[i])]]
    IN  IF \E i \in 1..Len(ids) : GetItemRaises(ids[i])
        THEN Handled(TRUE, Fetched(ids), <<>>, <<>>)
        ELSE Handled(FALSE, Fetched(ids), changedItems, ChangeItems(o, changedItems))

\* _ProcessMessage raising KeyError for a message without MessageType or Data
ProcessMessage_StrictKeys(o, messageObj) ==
    IF ~messageObj.hasType \/ ~messageObj.hasData THEN Handled(TRUE, <<>>, <<>>, <<>>)
    ELSE IF messageObj.MessageType = WS_MESSAGE_TYPE_LIBRARY_CHANGED
    THEN IF ~messageObj.Data.complete THEN Handled(TRUE, <<>>, <<>>, <<>>)
         ELSE ProcessMessageLibraryChanged(o, messageObj.Data)
    ELSE IF messageObj.MessageType = WS_MESSAGE_TYPE_USER_DATA_CHANGED
    THEN IF ~messageObj.Data.complete THEN Handled(TRUE, <<>>, <<>>, <<>>)
         ELSE ProcessMessageUserDataChanged(o, messageObj.Data)
    ELSE IF messageObj.MessageType \in {WS_MESSAGE_TYPE_SERVER_SHUTTING_DOWN,
                                        WS_MESSAGE_TYPE_SERVER_RESTARTING}
    THEN Handled(~o.settings, <<>>, <<>>, <<>>)
    ELSE Handled(FALSE, <<>>, <<>>, <<>>)

\* ProviderObserver._ProcessMessage: what the handler of the message did; an
\* exception leaves it when a key the handler reads is missing, when a
\* request raises, or when the settings read for a server message are None
ProcessMessage(o, messageObj) ==
    IF ~messageObj.hasType \/ ~messageObj.hasData THEN Handled(FALSE, <<>>, <<>>, <<>>)
    ELSE IF messageObj.MessageType = WS_MESSAGE_TYPE_LIBRARY_CHANGED
    THEN IF ~messageObj.Data.complete THEN Handled(TRUE, <<>>, <<>>, <<>>)
         ELSE ProcessMessageLibraryChanged(o, messageObj.Data)
    ELSE IF messageObj.MessageType = WS_MESSAGE_TYPE_USER_DATA_CHANGED
    THEN IF ~messageObj.Data.complete THEN Handled(TRUE, <<>>, <<>>, <<>>)
         ELSE ProcessMessageUserDataChanged(o, messageObj.Data)
    ELSE IF messageObj.MessageType \in {WS_MESSAGE_TYPE_SERVER_SHUTTING_DOWN,
                                        WS_MESSAGE_TYPE_SERVER_RESTARTING}
    THEN Handled(~o.settings, <<>>, <<>>, <<>>)
    ELSE Handled(FALSE, <<>>, <<>>, <<>>)

\* ProviderObserver._ProcessMessages: the loop over the frames received; the
\* result is the number of frames read and the calls made.  Every exception
\* is caught in the loop, which is then left.
RECURSIVE ProcessMessagesFrom(_, _, _)
ProcessMessagesFrom(o, frames, done) ==
    IF frames = <<>> THEN done
    ELSE LET message == Head(frames)
             read == [done EXCEPT !.read = @ + 1]
         IN  IF message.json = "unparsable" THEN read
             ELSE IF message.json = "null" THEN ProcessMessagesFrom(o, Tail(frames), read)
             ELSE LET r == ProcessMessage(o, message)
                      next == [read EXCEPT !.calls = @ \o r.calls,
                                           !.fetched = @ \o r.fetched,
                                           !.items = @ \o r.items]
                  IN  IF r.raised THEN next
                      ELSE ProcessMessagesFrom(o, Tail(frames), next)

\* _ProcessMessages without the test of _connected
ProcessMessages_Unguarded(o, frames) ==
    ProcessMessagesFrom(o, frames, [read |-> 0, calls |-> <<>>, fetched |-> <<>>, items |-> <<>>])

\* ProviderObserver._ProcessMessages: the frames read and what was done with
\* them
ProcessMessages(o, frames) ==
    LET none == [read |-> 0, calls |-> <<>>, fetched |-> <<>>, items |-> <<>>]
    IN  IF ~o.connected THEN none ELSE ProcessMessagesFrom(o, frames, none)

\* the sequences of at most n frames
RECURSIVE FrameSeqs(_)
FrameSeqs(n) ==
    IF n = 0 THEN {<<>>}
    ELSE FrameSeqs(n - 1) \cup { Append(fs, f) : fs \in FrameSeqs(n - 1), f \in Frames }


(***************************************************************************)
(* State.                                                                  *)
(***************************************************************************)
VARIABLES
    \* --- the import (a subscription) and what the host persists for it
    settings,      \* the provider's and the import's settings
    storedHash,    \* the persisted SETTING_IMPORT_SYNC_SETTINGS_HASH
    unsavedHash,   \* a hash setting written with setString but not saved
    lastSynced,    \* mediaImport.getLastSynced(): 0 when never synchronized
    mediaTypes,    \* the media types of the import
    \* --- one run of execImport
    pc,            \* position of the import script
    run,           \* the locals of execImport
    crawl,         \* the importItems call in progress
    requests,      \* every page request of the run
    addCalls,      \* every xbmcmediaimport.addImportItems call of the run
    finishCalls,   \* number of xbmcmediaimport.finishImport calls of the run
    outcome,       \* how the run ended
    \* --- history
    syncDue,       \* a settings change was detected and no run finished since
    forceRequested, \* the user confirmed forceSync and no run began since
    runs,          \* number of runs started
    changes,       \* number of settings changes made by the user
    \* --- SpecPages: the server side of the single view crawled
    pageServer,    \* the items of the view and the sizes of the pages served
    \* --- SpecObs: the observer service
    observers,     \* EmbyObserverService._observers, in the order of insertion
    service,       \* the position of EmbyObserverService._run
    tickLog,       \* what the Process calls of the current tick did
    \* --- SpecHash: the settings hash before and after a settings change
    hashEdit,      \* the settings before the change and the two hashes
    \* --- SpecMatch: a removed id resolved against the imported items
    matching,      \* the items, the removed id, the caller's list of ids and
                   \* the results so far
    \* --- SpecPush: the messages of one connected session
    push,          \* the session's imports and what its last Process call did
    \* --- SpecImports: the list of imports of one session
    subs,          \* the list, the last AddImport or RemoveImport and the list
                   \* before it
    \* --- SpecRequest: one call of Server._request
    request        \* the position in _request, the HTTP calls and the
                   \* authentications made, the access token and the result

importVars ==
    <<settings, storedHash, unsavedHash, lastSynced, mediaTypes, pc, run, crawl,
      requests, addCalls, finishCalls, outcome, syncDue, forceRequested, runs, changes>>

pageVars == <<pageServer>>

obsVars == <<observers, service, tickLog>>

hashVars == <<hashEdit>>

matchVars == <<matching>>
pushVars == <<push>>
subsVars == <<subs>>
requestVars == <<request>>

vars == <<importVars, pageVars, obsVars, hashVars, matchVars, pushVars, subsVars, requestVars>>

DefaultSettings ==
    [useKodiCompanion |-> TRUE, allowDirectPlay |-> TRUE,
     importViews |-> SETTING_IMPORT_VIEWS_OPTION_ALL, specificViews |-> <<"V1">>,
     importCollections |-> TRUE, showServerMessages |-> TRUE]

\* the media types an import is created for
ImportMediaTypes ==
    { <<MediaTypeMovie>>, <<MediaTypeTvShow>>, <<MediaTypeMovie, MediaTypeTvShow>>,
      <<MediaTypeVideoCollection, MediaTypeTvShow>> }

\* what KodiCompanion.SyncQueue.GetItems returns: [] when the request fails
\* (ok = FALSE: a list, which has no itemsRemoved), else a SyncQueue
SyncQueueAnswers ==
    { [ok |-> FALSE, itemsRemoved |-> <<>>],
      [ok |-> TRUE, itemsRemoved |-> <<>>],
      [ok |-> TRUE, itemsRemoved |-> <<"r1", "r2">>],
      [ok |-> TRUE, itemsRemoved |-> <<"r3", "r1">>] }

NoSyncQueue == [ok |-> FALSE, itemsRemoved |-> <<>>]

NoRun ==
    [changed |-> FALSE, fastSync |-> FALSE, syncQueue |-> NoSyncQueue, views |-> <<>>,
     progress |-> 0, view |-> 0, phase |-> "", items |-> <<>>, boxsets |-> <<>>,
     boxset |-> 0,
     \* history of the run: the server's plugin state, whether and with what
     \* answer the sync queue was fetched, the last synchronization before the
     \* run, whether forceSync preceded the run, and the media type (by its
     \* position) during whose crawl shouldCancel first answered true
     plugin |-> FALSE, queueFetched |-> FALSE, queueAnswer |-> NoSyncQueue,
     lastSyncedBefore |-> 0, forced |-> FALSE, cancelledIn |-> 0]

InitImport ==
    /\ settings = DefaultSettings
    /\ mediaTypes \in ImportMediaTypes
    \* a new import, or one that was synchronized with the current settings
    /\ \/ storedHash = NoHash /\ lastSynced = 0
       \/ storedHash = CalculateHash(mediaTypes, settings) /\ lastSynced = 1
    /\ unsavedHash = [edited |-> FALSE, value |-> NoHash]
    /\ pc = "idle"
    /\ run = NoRun
    /\ crawl = NoCrawl
    /\ requests = <<>>
    /\ addCalls = <<>>
    /\ finishCalls = 0
    /\ outcome = "none"
    /\ syncDue = FALSE
    /\ forceRequested = FALSE
    /\ runs = 0
    /\ changes = 0

\* the server the add-on talks to: its library views and the Limit option of
\* the item requests (scaled down to PageLimit); items and served are the view
\* of SpecPages before it is set up
NoPageServer == [items |-> <<>>, served |-> <<>>, views |-> ServerViews, limit |-> PageLimit]

InitPagesIdle == pageServer = NoPageServer

\* no settings change is being followed
NoEdit == [phase |-> "none", from |-> DefaultSettings, hashBefore |-> NoHash,
           hashAfter |-> NoHash]

InitHashIdle == hashEdit = NoEdit

\* no session is followed.  reading: the session is in the loop of
\* _ProcessMessages.  History of a session: the imports whose last callback
\* was AddImport (registered) or RemoveImport (removed), and of the last
\* Process call the imports at that time (at), the frames the websocket held,
\* how many were read, the ids fetched and the change events resolved.
NoPush ==
    [on |-> FALSE, connected |-> FALSE, imports |-> <<>>, reading |-> FALSE,
     registered |-> {}, removed |-> {}, processed |-> FALSE, at |-> <<>>, frames |-> <<>>,
     read |-> 0, calls |-> <<>>, fetched |-> <<>>, items |-> <<>>]

\* no list of imports is followed
NoSubs == [imports |-> <<>>, op |-> "", arg |-> NoImport, before |-> <<>>]

\* no call of Server._request is followed
NoRequest ==
    [pc |-> "off", method |-> "", token |-> 0, calls |-> <<>>, auths |-> <<>>, saved |-> 0,
     result |-> "", n |-> 0]

\* no removed id is being resolved
NoMatching ==
    [mode |-> "none", localItems |-> <<>>, id |-> "", ids |-> <<>>, results |-> <<>>]

\* EmbyObserverService.__init__: no observers; _run waits in waitForAbort
\* (pos = 0) or processes the observer at position pos
InitObs ==
    /\ observers = <<>>
    /\ service = [state |-> "running", pos |-> 0, callbacks |-> 0, ticks |-> 0]
    /\ tickLog = <<>>

(***************************************************************************)
(* The user and the host between two runs.                                 *)
(***************************************************************************)
\* the settings the user can reach by changing one setting
SettingsChoices(s) ==
    { [s EXCEPT !.useKodiCompanion = ~@],
      [s EXCEPT !.allowDirectPlay = ~@],
      [s EXCEPT !.importCollections = ~@],
      [s EXCEPT !.importViews = IF @ = SETTING_IMPORT_VIEWS_OPTION_ALL
                                THEN SETTING_IMPORT_VIEWS_OPTION_SPECIFIC
                                ELSE SETTING_IMPORT_VIEWS_OPTION_ALL],
      [s EXCEPT !.importViews = SETTING_IMPORT_VIEWS_OPTION_SPECIFIC,
                !.specificViews = IF @ = <<"V1">> THEN <<"V9">> ELSE <<"V1">>] }

\* The user changes a setting that takes part in the synchronization hash.
ChangeSettings ==
    /\ pc = "idle"
    /\ changes < MaxSettingsChanges
    /\ settings' \in SettingsChoices(settings)
    /\ changes' = changes + 1
    /\ UNCHANGED <<storedHash, unsavedHash, lastSynced, mediaTypes, pc, run, crawl,
                   requests, addCalls, finishCalls, outcome, syncDue, forceRequested, runs>>
    /\ UNCHANGED <<pageVars, obsVars, hashVars, matchVars, pushVars, subsVars, requestVars>>

\* ResetHash saving the settings whatever the caller asks for
ResetHash_Saving(stored, unsaved, save) ==
    [stored |-> NoHash, unsaved |-> [edited |-> FALSE, value |-> NoHash]]

\* SynchronizationSettings.ResetHash(importSettings, save): setString(hash, '')
\* and, with save, importSettings.save().  The result is the pair of the
\* persisted and the unsaved hash setting.
ResetHash(stored, unsaved, save) ==
    IF save THEN [stored |-> NoHash, unsaved |-> [edited |-> FALSE, value |-> NoHash]]
    ELSE [stored |-> stored, unsaved |-> [edited |-> TRUE, value |-> NoHash]]

\* forceSync (the 'forcesync' setting action): after the user's confirmation
\* the hash setting is reset without being saved.
\*   force     the user's answer to the yes/no dialog
\*   prepared  getImport and prepareSettings both succeeded
forceSync ==
    /\ pc = "idle"
    /\ ~unsavedHash.edited
    /\ \E force \in BOOLEAN, prepared \in BOOLEAN :
          IF ~force THEN UNCHANGED <<storedHash, unsavedHash, forceRequested>>
          ELSE IF ~prepared
          THEN \* getImport or prepareSettings failed: logged, nothing is reset
               /\ forceRequested' = TRUE
               /\ UNCHANGED <<storedHash, unsavedHash>>
          ELSE LET r == ResetHash(storedHash, unsavedHash, FALSE)
               IN  /\ storedHash' = r.stored
                   /\ unsavedHash' = r.unsaved
                   /\ forceRequested' = TRUE
    /\ UNCHANGED <<settings, lastSynced, mediaTypes, pc, run, crawl, requests, addCalls,
                   finishCalls, outcome, syncDue, runs, changes>>
    /\ UNCHANGED <<pageVars, obsVars, hashVars, matchVars, pushVars, subsVars, requestVars>>

\* The host closes the settings dialog in which forceSync was triggered: it
\* saves the edited settings (confirmed) or drops them (cancelled).
SettingsDialogClosed ==
    /\ pc = "idle"
    /\ unsavedHash.edited
    /\ \E saved \in BOOLEAN :
          storedHash' = IF saved THEN unsavedHash.value ELSE storedHash
    /\ unsavedHash' = [edited |-> FALSE, value |-> NoHash]
    /\ UNCHANGED <<settings, lastSynced, mediaTypes, pc, run, crawl, requests, addCalls,
                   finishCalls, outcome, syncDue, forceRequested, runs, changes>>
    /\ UNCHANGED <<pageVars, obsVars, hashVars, matchVars, pushVars, subsVars, requestVars>>


(***************************************************************************)
(* execImport (lib/importer.py:637-840).                                   *)
(***************************************************************************)
\* getMatchingLibraryViews: the views of the server, or the selected ones
getMatchingLibraryViews(libraryViews, selectedViews) ==
    IF selectedViews = <<>> THEN libraryViews
    ELSE SelectSeq(libraryViews, LAMBDA v : v \in Range(selectedViews))

\* the run going on without any library view
NoViews_Ignored(views) == FALSE

\* `if not views`: no library view matches the import
NoViews(views) == views = <<>>

\* the decision with the companion setting left out
SelectFastSync_IgnoresSetting(changed, lastSync, useKodiCompanion, installed) ==
    /\ ~changed
    /\ lastSync # 0
    /\ installed

\* the decision of execImport between a fast and a full synchronization
\*   changed    SynchronizationSettings.HaveChanged
\*   lastSync   mediaImport.getLastSynced()
\*   installed  KodiCompanion.IsInstalled
SelectFastSync(changed, lastSync, useKodiCompanion, installed) ==
    /\ ~changed
    /\ lastSync # 0
    /\ useKodiCompanion
    /\ installed

\* finishImport reached from inside the loop over the media types
MediaTypesDone_AfterFirst(progress, types) == progress >= 1

\* the loop over the media types has handled every media type
MediaTypesDone(progress, types) == progress = Len(types)

\* the media type execImport is working on
CurrentMediaType == mediaTypes[run.progress]

\* a run of execImport ends: by return, or by an exception that leaves it
EndRun(how) ==
    /\ outcome' = how
    /\ pc' = "returned"

\* execImport up to the loop over the media types: the library views, the
\* settings hash and the choice of the synchronization mode.
\*   prepared      the import, the provider and their settings were retrieved
\*   libraryViews  what Library.GetViews returns
\*   plugin        KodiCompanion.IsInstalled
\*   queue         what KodiCompanion.SyncQueue.GetItems returns
ExecImportBegin ==
    /\ pc = "idle"
    /\ ~unsavedHash.edited
    /\ runs < MaxRuns
    /\ runs' = runs + 1
    /\ \E prepared \in BOOLEAN, libraryViews \in {pageServer.views, <<>>}, plugin \in BOOLEAN,
          queue \in SyncQueueAnswers :
          LET views == getMatchingLibraryViews(libraryViews, GetLibraryViews(settings))
              changed == HaveChanged(mediaTypes, settings, storedHash)
              fast == SelectFastSync(changed, lastSynced, settings.useKodiCompanion, plugin)
          IN  IF ~prepared \/ NoViews(views)
              THEN /\ EndRun(IF ~prepared THEN "aborted" ELSE "noviews")
                   /\ UNCHANGED <<storedHash, run, syncDue, forceRequested>>
              ELSE /\ storedHash' = HashAfterHaveChanged(mediaTypes, settings, storedHash)
                   /\ run' = [NoRun EXCEPT !.changed = changed, !.fastSync = fast,
                                           !.plugin = plugin, !.queueFetched = fast,
                                           !.syncQueue = IF fast THEN queue ELSE NoSyncQueue,
                                           !.queueAnswer = IF fast THEN queue ELSE NoSyncQueue,
                                           !.forced = forceRequested,
                                           !.views = views,
                                           !.lastSyncedBefore = lastSynced]
                   /\ syncDue' = (syncDue \/ changed)
                   /\ forceRequested' = FALSE
                   /\ pc' = "mediatype"
                   /\ UNCHANGED outcome
    /\ UNCHANGED <<settings, unsavedHash, lastSynced, mediaTypes, crawl, requests, addCalls,
                   finishCalls, changes>>
    /\ UNCHANGED <<pageVars, obsVars, hashVars, matchVars, pushVars, subsVars, requestVars>>

\* The head of the loop over the media types: the cancellation check and the
\* media types that are skipped.
MediaTypeBegin ==
    /\ pc = "mediatype"
    /\ run.progress < Len(mediaTypes)
    /\ \E cancel \in BOOLEAN :
          LET mediaType == mediaTypes[run.progress + 1]
              skipped == \/ mediaType = MediaTypeVideoCollection /\ ~settings.importCollections
                         \/ getEmbyMediaType(mediaType) = ""
          IN  IF cancel
              THEN EndRun("cancelled") /\ UNCHANGED run
              ELSE /\ run' = [run EXCEPT !.progress = @ + 1, !.items = <<>>, !.boxsets = <<>>,
                                         !.view = 1, !.boxset = 1, !.phase = ""]
                   /\ pc' = IF skipped THEN "mediatype" ELSE "view"
                   /\ UNCHANGED outcome
    /\ UNCHANGED <<settings, storedHash, unsavedHash, lastSynced, mediaTypes, crawl, requests,
                   addCalls, finishCalls, syncDue, forceRequested, runs, changes>>
    /\ UNCHANGED <<pageVars, obsVars, hashVars, matchVars, pushVars, subsVars, requestVars>>

\* The head of the loop over the library views: importItems is called for the
\* next view.
ViewBegin ==
    /\ pc = "view"
    /\ IF run.view > Len(run.views)
       THEN pc' = "boxsets" /\ UNCHANGED <<run, crawl>>
       ELSE /\ crawl' = NewCrawl(run.views[run.view], getEmbyMediaType(CurrentMediaType),
                                 FALSE, run.fastSync, settings.allowDirectPlay)
            /\ run' = [run EXCEPT !.phase = "primary"]
            /\ pc' = "crawl"
    /\ UNCHANGED <<settings, storedHash, unsavedHash, lastSynced, mediaTypes, requests,
                   addCalls, finishCalls, outcome, syncDue, forceRequested, runs, changes>>
    /\ UNCHANGED <<pageVars, obsVars, hashVars, matchVars, pushVars, subsVars, requestVars>>

\* One iteration of the loop of importItems: cancellation check, page request
\* and the items of the page.
ImportItemsPage ==
    /\ pc = "crawl"
    /\ crawl.status = "running"
    /\ \E cancelBefore \in BOOLEAN, kind \in ResponseKinds, cancelAt \in 0..pageServer.limit :
          LET all == ServerItems(crawl.parent, crawl.embyType, crawl.filtered)
              resp == IF kind = "ok" THEN PageOf(all, crawl.startIndex, pageServer.limit)
                      ELSE BadResponse(kind)
          IN  /\ cancelAt <= Len(resp.Items)
              /\ crawl' = PageStep(crawl, cancelBefore, resp, cancelAt)
              /\ run' = IF crawl'.why = "cancelled" /\ run.cancelledIn = 0
                        THEN [run EXCEPT !.cancelledIn = run.progress]
                        ELSE run
              /\ requests' = IF cancelBefore THEN requests
                             ELSE Append(requests, [parent |-> crawl.parent,
                                                    embyType |-> crawl.embyType,
                                                    startIndex |-> crawl.startIndex,
                                                    filtered |-> crawl.filtered,
                                                    raw |-> crawl.raw])
    /\ UNCHANGED <<settings, storedHash, unsavedHash, lastSynced, mediaTypes, pc,
                   addCalls, finishCalls, outcome, syncDue, forceRequested, runs, changes>>
    /\ UNCHANGED <<pageVars, obsVars, hashVars, matchVars, pushVars, subsVars, requestVars>>

\* items.extend(importItems(...)) and the listing of the view's BoxSets
PrimaryReturn ==
    /\ pc = "crawl"
    /\ run.phase = "primary"
    /\ crawl.status \in {"done", "none"}
    /\ IF crawl.status = "none"
       THEN \* items.extend(None): TypeError
            EndRun("exception") /\ UNCHANGED <<run, crawl>>
       ELSE LET items == run.items \o crawl.items
            IN  IF settings.importCollections /\ items # <<>> /\ CurrentMediaType = MediaTypeMovie
                THEN /\ run' = [run EXCEPT !.items = items, !.phase = "boxsetlist"]
                     /\ crawl' = NewCrawl(run.views[run.view], EMBY_MEDIATYPE_BOXSET, TRUE,
                                          FALSE, settings.allowDirectPlay)
                     /\ UNCHANGED <<pc, outcome>>
                ELSE /\ run' = [run EXCEPT !.items = items, !.view = @ + 1]
                     /\ crawl' = NoCrawl
                     /\ pc' = "view"
                     /\ UNCHANGED outcome
    /\ UNCHANGED <<settings, storedHash, unsavedHash, lastSynced, mediaTypes, requests,
                   addCalls, finishCalls, syncDue, forceRequested, runs, changes>>
    /\ UNCHANGED <<pageVars, obsVars, hashVars, matchVars, pushVars, subsVars, requestVars>>

\* boxsets[boxsetId] = boxsetName for every BoxSet object with Id and Name
RECURSIVE AddBoxsets(_, _)
AddBoxsets(boxsets, boxsetObjs) ==
    IF boxsetObjs = <<>> THEN boxsets
    ELSE LET obj == Head(boxsetObjs)
             entry == [id |-> obj.id, name |-> BoxsetName(obj.id)]
             known == \E i \in 1..Len(boxsets) : boxsets[i].id = obj.id
             next == IF obj.id \in BoxsetsWithoutName THEN boxsets
                     ELSE IF known
                          THEN [i \in 1..Len(boxsets) |->
                                   IF boxsets[i].id = obj.id THEN entry ELSE boxsets[i]]
                          ELSE Append(boxsets, entry)
         IN  AddBoxsets(next, Tail(boxsetObjs))

\* the loop over the BoxSet objects of a view
BoxsetListReturn ==
    /\ pc = "crawl"
    /\ run.phase = "boxsetlist"
    /\ crawl.status \in {"done", "none"}
    /\ IF crawl.status = "none"
       THEN \* for boxsetObj in None: TypeError
            EndRun("exception") /\ UNCHANGED <<run, crawl>>
       ELSE /\ run' = [run EXCEPT !.boxsets = AddBoxsets(@, crawl.items), !.view = @ + 1]
            /\ crawl' = NoCrawl
            /\ pc' = "view"
            /\ UNCHANGED outcome
    /\ UNCHANGED <<settings, storedHash, unsavedHash, lastSynced, mediaTypes, requests,
                   addCalls, finishCalls, syncDue, forceRequested, runs, changes>>
    /\ UNCHANGED <<pageVars, obsVars, hashVars, matchVars, pushVars, subsVars, requestVars>>

\* The head of the loop over the BoxSets found: importItems is called for
\* the members of the next BoxSet.
BoxsetsNext ==
    /\ pc = "boxsets"
    /\ IF settings.importCollections /\ run.items # <<>> /\ run.boxset <= Len(run.boxsets)
       THEN /\ crawl' = NewCrawl(run.boxsets[run.boxset].id, getEmbyMediaType(CurrentMediaType),
                                 FALSE, run.fastSync, settings.allowDirectPlay)
            /\ run' = [run EXCEPT !.phase = "members"]
            /\ pc' = "crawl"
       ELSE pc' = "commit" /\ UNCHANGED <<run, crawl>>
    /\ UNCHANGED <<settings, storedHash, unsavedHash, lastSynced, mediaTypes, requests,
                   addCalls, finishCalls, outcome, syncDue, forceRequested, runs, changes>>
    /\ UNCHANGED <<pageVars, obsVars, hashVars, matchVars, pushVars, subsVars, requestVars>>

\* the members of a BoxSet that were not retrieved before are added as well
TagMembers_AppendMissing(items, boxsetItems, boxsetName) ==
    [i \in 1..Len(items) |->
        IF \E j \in 1..Len(boxsetItems) : boxsetItems[j].id = items[i].id
        THEN setCollection(items[i], boxsetName)
        ELSE items[i]]
    \o SelectSeq([j \in 1..Len(boxsetItems) |-> setCollection(boxsetItems[j], boxsetName)],
                 LAMBDA m : \A i \in 1..Len(items) : items[i].id # m.id)

\* every retrieved item is labelled once the BoxSet has a member
TagMembers_TagAll(items, boxsetItems, boxsetName) ==
    [i \in 1..Len(items) |->
        IF boxsetItems # <<>> THEN setCollection(items[i], boxsetName) ELSE items[i]]

\* the retrieved items after the members of a BoxSet were matched by path
TagMembers(items, boxsetItems, boxsetName) ==
    [i \in 1..Len(items) |->
        IF \E j \in 1..Len(boxsetItems) : boxsetItems[j].id = items[i].id
        THEN setCollection(items[i], boxsetName)
        ELSE items[i]]

\* the loop over the members of a BoxSet
MembersReturn ==
    /\ pc = "crawl"
    /\ run.phase = "members"
    /\ crawl.status \in {"done", "none"}
    /\ IF crawl.status = "none"
       THEN \* for boxsetItem in None: TypeError
            EndRun("exception") /\ UNCHANGED <<run, crawl>>
       ELSE /\ run' = [run EXCEPT !.items = TagMembers(@, crawl.items,
                                                       run.boxsets[run.boxset].name),
                                  !.boxset = @ + 1]
            /\ crawl' = NoCrawl
            /\ pc' = "boxsets"
            /\ UNCHANGED outcome
    /\ UNCHANGED <<settings, storedHash, unsavedHash, lastSynced, mediaTypes, requests,
                   addCalls, finishCalls, syncDue, forceRequested, runs, changes>>
    /\ UNCHANGED <<pageVars, obsVars, hashVars, matchVars, pushVars, subsVars, requestVars>>

AddImportItems(calls, items, mediaType, changeset) ==
    Append(calls, [mediaType |-> mediaType, changeset |-> changeset, items |-> items])

\* The end of the loop body: the removed items of a fast synchronization and
\* the hand-over of the retrieved items to the host.
CommitMediaType ==
    /\ pc = "commit"
    /\ IF run.fastSync /\ ~run.syncQueue.ok
       THEN \* syncQueue is a list: AttributeError on syncQueue.itemsRemoved
            EndRun("exception") /\ UNCHANGED <<run, addCalls>>
       ELSE LET handleRemoved == run.fastSync /\ run.syncQueue.itemsRemoved # <<>>
                removedItems == matchImportedItemIdsToLocalItems(
                                    getImportedItems(CurrentMediaType),
                                    run.syncQueue.itemsRemoved)
                calls1 == IF handleRemoved /\ removedItems # <<>>
                          THEN AddImportItems(addCalls, removedItems, CurrentMediaType, "removed")
                          ELSE addCalls
                calls2 == IF run.items # <<>>
                          THEN AddImportItems(calls1, run.items, CurrentMediaType, "changed")
                          ELSE calls1
            IN  /\ run' = IF handleRemoved
                          THEN [run EXCEPT !.syncQueue.itemsRemoved =
                                               RemainingRemoved(@, removedItems)]
                          ELSE run
                /\ addCalls' = calls2
                /\ pc' = "mediatype"
                /\ UNCHANGED outcome
    /\ UNCHANGED <<settings, storedHash, unsavedHash, lastSynced, mediaTypes, crawl, requests,
                   finishCalls, syncDue, forceRequested, runs, changes>>
    /\ UNCHANGED <<pageVars, obsVars, hashVars, matchVars, pushVars, subsVars, requestVars>>

\* xbmcmediaimport.finishImport after the loop over the media types; the host
\* then records the time of the synchronization.
ExecImportFinish ==
    /\ pc = "mediatype"
    /\ MediaTypesDone(run.progress, mediaTypes)
    /\ finishCalls' = finishCalls + 1
    /\ lastSynced' = lastSynced + 1
    /\ syncDue' = FALSE
    /\ EndRun("finished")
    /\ UNCHANGED <<settings, storedHash, unsavedHash, mediaTypes, run, crawl, requests,
                   addCalls, forceRequested, runs, changes>>
    /\ UNCHANGED <<pageVars, obsVars, hashVars, matchVars, pushVars, subsVars, requestVars>>

\* The script has ended; the host may start the next one.
ReturnToHost ==
    /\ pc = "returned"
    /\ pc' = "idle"
    /\ run' = NoRun
    /\ crawl' = NoCrawl
    /\ requests' = <<>>
    /\ addCalls' = <<>>
    /\ finishCalls' = 0
    /\ outcome' = "none"
    /\ UNCHANGED <<settings, storedHash, unsavedHash, lastSynced, mediaTypes, syncDue,
                   forceRequested, runs, changes>>
    /\ UNCHANGED <<pageVars, obsVars, hashVars, matchVars, pushVars, subsVars, requestVars>>

Init == InitImport /\ InitPagesIdle /\ InitObs /\ InitHashIdle /\ matching = NoMatching /\ push = NoPush /\ subs = NoSubs /\ request = NoRequest

Next ==
    \/ ChangeSettings
    \/ forceSync
    \/ SettingsDialogClosed
    \/ ExecImportBegin
    \/ MediaTypeBegin
    \/ ViewBegin
    \/ ImportItemsPage
    \/ PrimaryReturn
    \/ BoxsetListReturn
    \/ BoxsetsNext
    \/ MembersReturn
    \/ CommitMediaType
    \/ ExecImportFinish
    \/ ReturnToHost

Spec == Init /\ [][Next]_vars

(***************************************************************************)
(* SpecExample: the import script against the server of the example, for   *)
(* an import of movies, with the Limit option the add-on really uses.      *)
(***************************************************************************)
InitExample ==
    /\ InitImport
    /\ mediaTypes = <<MediaTypeMovie>>
    /\ pageServer = [NoPageServer EXCEPT !.views = ExampleViews, !.limit = ITEM_REQUEST_LIMIT]
    /\ InitObs
    /\ InitHashIdle /\ matching = NoMatching /\ push = NoPush /\ subs = NoSubs /\ request = NoRequest

SpecExample == InitExample /\ [][Next]_vars


(***************************************************************************)
(* SpecPages: importItems (lib/importer.py:411-460) on one view, without   *)
(* cancellation, for every total and every way the server cuts the pages.  *)
(***************************************************************************)
\* the ids of the items of the view
PagedIds == <<"m1", "m2", "m3", "m4", "m5", "m6", "m7", "m8">>

InitPages ==
    /\ \E total \in 0..Min(MaxTotal, Len(PagedIds)) :
          pageServer = [NoPageServer EXCEPT !.items = SubSeq(PagedIds, 1, total)]
    /\ settings \in {DefaultSettings, [DefaultSettings EXCEPT !.allowDirectPlay = FALSE]}
    /\ \E raw \in BOOLEAN :
          crawl = NewCrawl("V1", "Movie", raw, FALSE, settings.allowDirectPlay)
    /\ mediaTypes = <<MediaTypeMovie>>
    /\ storedHash = NoHash
    /\ lastSynced = 0
    /\ unsavedHash = [edited |-> FALSE, value |-> NoHash]
    /\ pc = "crawl"
    /\ run = NoRun
    /\ requests = <<>>
    /\ addCalls = <<>>
    /\ finishCalls = 0
    /\ outcome = "none"
    /\ syncDue = FALSE
    /\ forceRequested = FALSE
    /\ runs = 0
    /\ changes = 0
    /\ InitObs
    /\ InitHashIdle /\ matching = NoMatching /\ push = NoPush /\ subs = NoSubs /\ request = NoRequest

\* One iteration of the loop of importItems; the server answers with the
\* next n items of the view (fewer at its end).
ImportItemsLoop ==
    /\ pc = "crawl"
    /\ crawl.status = "running"
    /\ Len(crawl.requests) < MaxRequests
    /\ \E n \in 0..PageLimit :
          LET resp == PageOf(pageServer.items, crawl.startIndex, n)
          IN  /\ crawl' = PageStep(crawl, FALSE, resp, 0)
              /\ pageServer' = [pageServer EXCEPT !.served = Append(@, Len(resp.Items))]
    /\ UNCHANGED <<settings, storedHash, unsavedHash, lastSynced, mediaTypes, pc, run,
                   requests, addCalls, finishCalls, outcome, syncDue, forceRequested, runs,
                   changes>>
    /\ UNCHANGED <<obsVars, hashVars, matchVars, pushVars, subsVars, requestVars>>

NextPages == ImportItemsLoop

SpecPages == InitPages /\ [][NextPages]_vars

(***************************************************************************)
(* SpecObs: the observer service (observer.py) and its provider sessions.  *)
(*                                                                         *)
(* observer.py constructs ProviderObserver(mediaProvider) and calls        *)
(* Start(); ProviderObserver takes no constructor argument and Start takes *)
(* the media provider.  The model follows the signatures of                *)
(* ProviderObserver: _addObserver creates ProviderObserver() and           *)
(* _startObserver calls Start(mediaProvider).                              *)
(* The host delivers its callbacks while the service waits in              *)
(* waitForAbort.                                                           *)
(***************************************************************************)
InitObsSpec ==
    /\ InitObs
    /\ InitPagesIdle
    /\ InitHashIdle /\ matching = NoMatching /\ push = NoPush /\ subs = NoSubs /\ request = NoRequest
    /\ settings = DefaultSettings
    /\ mediaTypes = <<MediaTypeMovie>>
    /\ storedHash = NoHash
    /\ lastSynced = 0
    /\ unsavedHash = [edited |-> FALSE, value |-> NoHash]
    /\ pc = "idle"
    /\ run = NoRun
    /\ crawl = NoCrawl
    /\ requests = <<>>
    /\ addCalls = <<>>
    /\ finishCalls = 0
    /\ outcome = "none"
    /\ syncDue = FALSE
    /\ forceRequested = FALSE
    /\ runs = 0
    /\ changes = 0

\* the position of a provider's session in _observers, 0 when it has none
ObserverIndex(mediaProviderId) ==
    IF \E i \in 1..Len(observers) : observers[i].id = mediaProviderId
    THEN CHOOSE i \in 1..Len(observers) : observers[i].id = mediaProviderId
    ELSE 0

\* _addObserver without the test for a known identifier
addObserver_AlwaysNew(mediaProvider) ==
    Append(observers, NewObserver(mediaProvider.id))

\* EmbyObserverService._addObserver: the observers afterwards
addObserver(mediaProvider) ==
    IF ObserverIndex(mediaProvider.id) # 0 THEN observers
    ELSE Append(observers, NewObserver(mediaProvider.id))

\* the service waits in waitForAbort
InWaitForAbort == service.state = "running" /\ service.pos = 0

\* the host calls back while the service waits in waitForAbort
Callback ==
    /\ InWaitForAbort
    /\ service.callbacks < MaxCallbacks
    /\ service' = [service EXCEPT !.callbacks = @ + 1]

\* onProviderAdded and onProviderUpdated
onProviderAdded ==
    /\ Callback
    /\ \E mediaProvider \in MediaProviders :
          observers' = addObserver(mediaProvider)
    /\ UNCHANGED <<tickLog, importVars, pageVars, hashVars, matchVars, pushVars, subsVars, requestVars>>

\* onProviderRemoved: _removeObserver
onProviderRemoved ==
    /\ Callback
    /\ \E mediaProvider \in MediaProviders :
          LET i == ObserverIndex(mediaProvider.id)
          IN  /\ i # 0
              /\ observers' = SubSeq(observers, 1, i - 1) \o SubSeq(observers, i + 1, Len(observers))
    /\ UNCHANGED <<tickLog, importVars, pageVars, hashVars, matchVars, pushVars, subsVars, requestVars>>

\* onProviderActivated: _startObserver
onProviderActivated ==
    /\ Callback
    /\ \E mediaProvider \in MediaProviders :
          LET added == addObserver(mediaProvider)
              i == CHOOSE k \in 1..Len(added) : added[k].id = mediaProvider.id
          IN  /\ Len(added[i].actions) < MaxQueued
              /\ observers' = [added EXCEPT ![i] = Start(@, mediaProvider)]
    /\ UNCHANGED <<tickLog, importVars, pageVars, hashVars, matchVars, pushVars, subsVars, requestVars>>

\* onProviderDeactivated: _stopObserver
onProviderDeactivated ==
    /\ Callback
    /\ \E mediaProvider \in MediaProviders :
          LET i == ObserverIndex(mediaProvider.id)
          IN  /\ i # 0
              /\ Len(observers[i].actions) < MaxQueued
              /\ observers' = [observers EXCEPT ![i] = Stop(@)]
    /\ UNCHANGED <<tickLog, importVars, pageVars, hashVars, matchVars, pushVars, subsVars, requestVars>>

\* onImportAdded and onImportUpdated: _addImport
onImportAdded ==
    /\ Callback
    /\ \E mediaImport \in MediaImports :
          LET i == ObserverIndex(mediaImport.provider)
          IN  /\ i # 0
              /\ observers' = [observers EXCEPT ![i] = AddImport(@, mediaImport)]
    /\ UNCHANGED <<tickLog, importVars, pageVars, hashVars, matchVars, pushVars, subsVars, requestVars>>

\* onImportRemoved: _removeImport
onImportRemoved ==
    /\ Callback
    /\ \E mediaImport \in MediaImports :
          LET i == ObserverIndex(mediaImport.provider)
          IN  /\ i # 0
              /\ observers' = [observers EXCEPT ![i] = RemoveImport(@, mediaImport)]
    /\ UNCHANGED <<tickLog, importVars, pageVars, hashVars, matchVars, pushVars, subsVars, requestVars>>

\* _run: waitForAbort(1) returned false and abortRequested() is false; the
\* loop over the observers begins
PollLoopTick ==
    /\ InWaitForAbort
    /\ observers # <<>>
    /\ service.ticks < MaxTicks
    /\ service' = [service EXCEPT !.pos = 1, !.ticks = @ + 1]
    /\ tickLog' = <<>>
    /\ UNCHANGED <<observers, importVars, pageVars, hashVars, matchVars, pushVars, subsVars, requestVars>>

\* observer.Process() for the next observer of the loop in _run:
\* _ProcessActions, then _ProcessMessages.  An exception that leaves Process
\* leaves _run, and the service script with it.
\* frames are what the server has sent, whether the session is connected or
\* not; end tells how the receive after the last of them ends, which only a
\* connected session can find out.
Process ==
    /\ service.state = "running"
    /\ service.pos \in 1..Len(observers)
    /\ LET o == observers[service.pos]
       IN  \E r \in ProcessActions(o), frames \in FrameSeqs(MaxFrames), end \in ReceiveEnds :
              LET m == ProcessMessages(r.obs, frames)
                  after == [r.obs EXCEPT !.log = <<>>]
              IN  IF r.raised
                  THEN /\ observers' = [observers EXCEPT ![service.pos] = after]
                       /\ service' = [service EXCEPT !.state = "raised"]
                       /\ tickLog' = Append(tickLog, [id |-> o.id, returned |-> FALSE,
                                                      read |-> 0, end |-> "", calls |-> <<>>,
                                                      log |-> r.obs.log, after |-> after])
                  ELSE /\ r.obs.connected \/ end = "timeout"
                       /\ observers' = [observers EXCEPT ![service.pos] = after]
                       /\ service' = [service EXCEPT !.pos = IF @ = Len(observers) THEN 0
                                                               ELSE @ + 1]
                       /\ tickLog' = Append(tickLog,
                                            [id |-> o.id, returned |-> TRUE, read |-> m.read,
                                             end |-> IF r.obs.connected /\ m.read = Len(frames)
                                                     THEN end ELSE "",
                                             calls |-> m.calls,
                                             log |-> r.obs.log, after |-> after])
    /\ UNCHANGED <<importVars, pageVars, hashVars, matchVars, pushVars, subsVars, requestVars>>

\* _run after the loop: abortRequested() or waitForAbort(1) is true; Stop is
\* called on every observer
PollLoopAbort ==
    /\ InWaitForAbort
    /\ observers' = [i \in 1..Len(observers) |-> Stop(observers[i])]
    /\ service' = [service EXCEPT !.state = "stopped"]
    /\ UNCHANGED <<tickLog, importVars, pageVars, hashVars, matchVars, pushVars, subsVars, requestVars>>

NextObs ==
    \/ onProviderAdded
    \/ onProviderRemoved
    \/ onProviderActivated
    \/ onProviderDeactivated
    \/ onImportAdded
    \/ onImportRemoved
    \/ PollLoopTick
    \/ Process
    \/ PollLoopAbort

SpecObs == InitObsSpec /\ [][NextObs]_vars

(***************************************************************************)
(* SpecHash: SynchronizationSettings.CalculateHash (lib/settings.py) for   *)
(* every value of the settings and every import, before and after the      *)
(* change of one setting.                                                  *)
(***************************************************************************)
\* the values of the settings of a provider and of one of its imports;
\* showServerMessages stands for the settings CalculateHash does not read
HashSettings ==
    [useKodiCompanion : BOOLEAN, allowDirectPlay : BOOLEAN,
     importViews : {SETTING_IMPORT_VIEWS_OPTION_ALL, SETTING_IMPORT_VIEWS_OPTION_SPECIFIC},
     specificViews : {<<>>, <<"V1">>, <<"V1", "V2">>},
     importCollections : BOOLEAN, showServerMessages : BOOLEAN]

\* the settings after the user has changed one of them
OneSettingChanged(s) ==
    { t \in HashSettings : Cardinality({ f \in DOMAIN s : t[f] # s[f] }) = 1 }

InitHash ==
    /\ settings \in HashSettings
    /\ mediaTypes \in ImportMediaTypes
    /\ storedHash = NoHash
    /\ hashEdit = [NoEdit EXCEPT !.phase = "new"]
    /\ lastSynced = 0
    /\ unsavedHash = [edited |-> FALSE, value |-> NoHash]
    /\ pc = "idle"
    /\ run = NoRun
    /\ crawl = NoCrawl
    /\ requests = <<>>
    /\ addCalls = <<>>
    /\ finishCalls = 0
    /\ outcome = "none"
    /\ syncDue = FALSE
    /\ forceRequested = FALSE
    /\ runs = 0
    /\ changes = 0
    /\ InitPagesIdle
    /\ InitObs
    /\ matching = NoMatching /\ push = NoPush /\ subs = NoSubs /\ request = NoRequest

\* CalculateHash(mediaTypes, providerSettings, importSettings, save=True):
\* the hash of the current settings is computed and saved
CalculateHashSave ==
    /\ hashEdit.phase \in {"new", "edited"}
    /\ storedHash' = CalculateHash(mediaTypes, settings)
    /\ hashEdit' = IF hashEdit.phase = "new" THEN [hashEdit EXCEPT !.phase = "saved"]
                   ELSE [hashEdit EXCEPT !.phase = "recalculated", !.hashAfter = storedHash']
    /\ UNCHANGED <<settings, unsavedHash, lastSynced, mediaTypes, pc, run, crawl, requests,
                   addCalls, finishCalls, outcome, syncDue, forceRequested, runs, changes>>
    /\ UNCHANGED <<pageVars, obsVars, matchVars, pushVars, subsVars, requestVars>>

\* the user changes one setting of the provider or of the import
EditSetting ==
    /\ hashEdit.phase = "saved"
    /\ settings' \in OneSettingChanged(settings)
    /\ hashEdit' = [hashEdit EXCEPT !.phase = "edited", !.from = settings,
                                    !.hashBefore = storedHash]
    /\ UNCHANGED <<storedHash, unsavedHash, lastSynced, mediaTypes, pc, run, crawl, requests,
                   addCalls, finishCalls, outcome, syncDue, forceRequested, runs, changes>>
    /\ UNCHANGED <<pageVars, obsVars, matchVars, pushVars, subsVars, requestVars>>

NextHash ==
    \/ CalculateHashSave
    \/ EditSetting

SpecHash == InitHash /\ [][NextHash]_vars

(***************************************************************************)
(* SpecMatch: a removed id is resolved twice against the same imported     *)
(* items, by Api.matchImportedItemIdsToLocalItems (lib/kodi.py) or by the  *)
(* loop of _ProcessMessageLibraryChanged (emby/provider_observer.py).      *)
(***************************************************************************)
\* the lists of at most n imported items; two items may carry the same Emby
\* id, the collection tells them apart
RECURSIVE LocalItemLists(_)
LocalItemLists(n) ==
    IF n = 0 THEN {<<>>}
    ELSE LocalItemLists(n - 1) \cup
         { Append(l, [id |-> id, collection |-> c]) :
           l \in LocalItemLists(n - 1), id \in {"", "a", "b"}, c \in {"", "x"} }

InitMatch ==
    /\ \/ \E l \in LocalItemLists(MaxLocalItems), id \in {"a", "b", "c"} :
             matching = [mode |-> "importer", localItems |-> l, id |-> id, ids |-> <<id>>,
                         results |-> <<>>]
       \/ \E id \in {"r1", "r3", "r9", "m1"} :
             matching = [mode |-> "observer", localItems |-> getImportedItemsByProvider,
                         id |-> id, ids |-> <<id>>, results |-> <<>>]
    /\ settings = DefaultSettings
    /\ mediaTypes = <<MediaTypeMovie>>
    /\ storedHash = NoHash
    /\ lastSynced = 0
    /\ unsavedHash = [edited |-> FALSE, value |-> NoHash]
    /\ pc = "idle"
    /\ run = NoRun
    /\ crawl = NoCrawl
    /\ requests = <<>>
    /\ addCalls = <<>>
    /\ finishCalls = 0
    /\ outcome = "none"
    /\ syncDue = FALSE
    /\ forceRequested = FALSE
    /\ runs = 0
    /\ changes = 0
    /\ InitPagesIdle
    /\ InitObs
    /\ InitHashIdle
    /\ push = NoPush /\ subs = NoSubs /\ request = NoRequest

\* the removed ids are resolved: matchImportedItemIdsToLocalItems(localItems,
\* ids), or the resolution of a removed id of a LibraryChanged message
ResolveRemoved ==
    /\ matching.mode # "none"
    /\ Len(matching.results) < 2
    /\ IF matching.mode = "importer"
       THEN matching' =
               [matching EXCEPT
                   !.results = Append(@, matchImportedItemIdsToLocalItems(matching.localItems,
                                                                          matching.ids)),
                   !.ids = IdsAfterMatch(@, MatchRemaining(matching.localItems, @))]
       ELSE matching' =
               [matching EXCEPT
                   !.results = Append(@, ResolveChangedItems(
                                   <<[changeset |-> MediaImportChangesetTypeRemoved,
                                      itemId |-> matching.id]>>))]
    /\ UNCHANGED <<importVars, pageVars, obsVars, hashVars, pushVars, subsVars, requestVars>>

SpecMatch == InitMatch /\ [][ResolveRemoved]_vars

(***************************************************************************)
(* SpecPush: one session of ProviderObserver that is connected, the        *)
(* imports the host adds to and removes from it, and the frames it reads   *)
(* in a Process call (emby/provider_observer.py).                          *)
(***************************************************************************)
\* the session after a successful _StartAction, with the given imports
ConnectedSession(imports) ==
    [NewObserver("p1") EXCEPT !.connected = TRUE, !.imports = imports,
                              !.mediaProvider = [id |-> "p1", rev |-> 1, settingsOk |-> TRUE,
                                                 basePath |-> "a"],
                              !.settings = TRUE, !.server = TRUE, !.websocket = "connected"]

InitPush ==
    /\ push = [NoPush EXCEPT !.on = TRUE, !.connected = ConnectedSession(<<>>).connected]
    /\ settings = DefaultSettings
    /\ mediaTypes = <<MediaTypeMovie>>
    /\ storedHash = NoHash
    /\ lastSynced = 0
    /\ unsavedHash = [edited |-> FALSE, value |-> NoHash]
    /\ pc = "idle"
    /\ run = NoRun
    /\ crawl = NoCrawl
    /\ requests = <<>>
    /\ addCalls = <<>>
    /\ finishCalls = 0
    /\ outcome = "none"
    /\ syncDue = FALSE
    /\ forceRequested = FALSE
    /\ runs = 0
    /\ changes = 0
    /\ InitPagesIdle
    /\ InitObs
    /\ InitHashIdle
    /\ matching = NoMatching
    /\ subs = NoSubs /\ request = NoRequest

\* ProviderObserver.AddImport, called by the host's onImportAdded or
\* onImportUpdated
SessionAddImport ==
    /\ push.on
    /\ ~push.reading
    /\ \E mediaImport \in MediaImports :
          push' = [push EXCEPT
                      !.imports = AddImport(ConnectedSession(@), mediaImport).imports,
                      !.registered = @ \cup {mediaImport},
                      !.removed = @ \ {mediaImport}]
    /\ UNCHANGED <<importVars, pageVars, obsVars, hashVars, matchVars, subsVars, requestVars>>

\* ProviderObserver.RemoveImport, called by the host's onImportRemoved
SessionRemoveImport ==
    /\ push.on
    /\ ~push.reading
    /\ \E mediaImport \in MediaImports :
          push' = [push EXCEPT
                      !.imports = RemoveImport(ConnectedSession(@), mediaImport).imports,
                      !.registered = @ \ {mediaImport},
                      !.removed = @ \cup {mediaImport}]
    /\ UNCHANGED <<importVars, pageVars, obsVars, hashVars, matchVars, subsVars, requestVars>>

\* ProviderObserver.Process of the connected session with an empty queue of
\* actions: _ProcessActions, then _ProcessMessages is entered
SessionProcess ==
    /\ push.on
    /\ ~push.reading
    /\ \E r \in ProcessActions(ConnectedSession(push.imports)) :
          LET m == ProcessMessages(r.obs, <<>>)
          IN  push' = [push EXCEPT !.connected = r.obs.connected, !.reading = TRUE,
                                   !.processed = TRUE, !.at = push.imports,
                                   !.frames = <<>>, !.read = m.read, !.calls = m.calls,
                                   !.fetched = m.fetched, !.items = m.items]
    /\ UNCHANGED <<importVars, pageVars, obsVars, hashVars, matchVars, subsVars, requestVars>>

\* the loop of _ProcessMessages while the websocket holds one more frame:
\* what the loop has done is what it does with the frames held so far (a
\* frame behind the one at which the loop was left stays unread)
SessionReceive ==
    /\ push.reading
    /\ Len(push.frames) < MaxFrames
    /\ \E frame \in Frames :
          LET frames == Append(push.frames, frame)
              m == ProcessMessages(ConnectedSession(push.at), frames)
          IN  push' = [push EXCEPT !.frames = frames, !.read = m.read, !.calls = m.calls,
                                   !.fetched = m.fetched, !.items = m.items]
    /\ UNCHANGED <<importVars, pageVars, obsVars, hashVars, matchVars, subsVars, requestVars>>

\* _ProcessMessages and Process return
SessionReturn ==
    /\ push.reading
    /\ push' = [push EXCEPT !.reading = FALSE]
    /\ UNCHANGED <<importVars, pageVars, obsVars, hashVars, matchVars, subsVars, requestVars>>

NextPush ==
    \/ SessionAddImport
    \/ SessionRemoveImport
    \/ SessionProcess
    \/ SessionReceive
    \/ SessionReturn

SpecPush == InitPush /\ [][NextPush]_vars

(***************************************************************************)
(* SpecImports: the list of imports of one session of ProviderObserver     *)
(* under the host's onImportAdded, onImportUpdated and onImportRemoved, for *)
(* imports of two paths and two lists of media types; an updated import    *)
(* differs from the one it replaces in its settings.                       *)
(***************************************************************************)
\* the import script, the paging, the service, the hash, the matching and
\* the messages are not running
InitOthersIdle ==
    /\ settings = DefaultSettings
    /\ mediaTypes = <<MediaTypeMovie>>
    /\ storedHash = NoHash
    /\ lastSynced = 0
    /\ unsavedHash = [edited |-> FALSE, value |-> NoHash]
    /\ pc = "idle"
    /\ run = NoRun
    /\ crawl = NoCrawl
    /\ requests = <<>>
    /\ addCalls = <<>>
    /\ finishCalls = 0
    /\ outcome = "none"
    /\ syncDue = FALSE
    /\ forceRequested = FALSE
    /\ runs = 0
    /\ changes = 0
    /\ InitPagesIdle
    /\ InitObs
    /\ InitHashIdle
    /\ matching = NoMatching
    /\ push = NoPush

ListedImports ==
    { [provider |-> "p1", path |-> path, mediaTypes |-> types, settings |-> s] :
        path \in {"emby://p1/", "emby://p1/b/"},
        types \in {<<MediaTypeMovie>>, <<MediaTypeMovie, MediaTypeTvShow>>},
        s \in 1..MaxImportSettings }

\* a session of ProviderObserver with the given list of imports
SessionWith(imports) == [NewObserver("p1") EXCEPT !.imports = imports]

\* ProviderObserver.__init__: no imports
InitImports ==
    /\ subs = [NoSubs EXCEPT !.arg = [provider |-> "", path |-> "", mediaTypes |-> <<>>,
                                      settings |-> 0]]
    /\ request = NoRequest
    /\ InitOthersIdle

\* ProviderObserver.AddImport, called by onImportAdded or onImportUpdated
ListAddImport ==
    /\ \E mediaImport \in ListedImports :
          subs' = [imports |-> AddImport(SessionWith(subs.imports), mediaImport).imports,
                   op |-> "AddImport", arg |-> mediaImport, before |-> subs.imports]
    /\ UNCHANGED <<importVars, pageVars, obsVars, hashVars, matchVars, pushVars, requestVars>>

\* ProviderObserver.RemoveImport, called by onImportRemoved
ListRemoveImport ==
    /\ \E mediaImport \in ListedImports :
          subs' = [imports |-> RemoveImport(SessionWith(subs.imports), mediaImport).imports,
                   op |-> "RemoveImport", arg |-> mediaImport, before |-> subs.imports]
    /\ UNCHANGED <<importVars, pageVars, obsVars, hashVars, matchVars, pushVars, requestVars>>

NextImports == ListAddImport \/ ListRemoveImport

SpecImports == InitImports /\ [][NextImports]_vars

(***************************************************************************)
(* SpecRequest: Server._request (emby/server.py:305-320), called by        *)
(* ApiGet, ApiPost and ApiDelete, for every answer of the server to the    *)
(* HTTP call and to the authentication.                                    *)
(*   request.calls  the HTTP calls made: the access token of their headers *)
(*                  and how they ended                                     *)
(*   request.auths  the calls of Server._authenticate: their force         *)
(*                  argument and how they ended                            *)
(***************************************************************************)
\* How the HTTP call function(url, headers, *args) ends: it returns the
\* response ("ok"), it returns None after an HTTP error other than 401 or an
\* empty response ("failed"), Request._handleRequest raises
\* NotAuthenticatedError on HTTP 401 ("unauthorized"), or the request got no
\* response and ValueError is raised ("noresponse").
HttpOutcomes == {"ok", "failed", "unauthorized", "noresponse"}

\* How Server._authenticate ends: the authenticator got a new access token
\* ("ok"), Authenticate returned False ("failed"), or the authentication
\* request raised ("raised").
AuthOutcomes == {"ok", "failed", "raised"}

\* what _request returns or raises when the HTTP call ends it
ResultOf(how) ==
    CASE how = "ok" -> "response"
      [] how = "failed" -> "None"
      [] how = "unauthorized" -> "NotAuthenticatedError"
      [] OTHER -> "ValueError"

\* the HTTP call of _request repeated after every NotAuthenticatedError
Attempt_AlwaysRetry(r, how) ==
    LET called == [r EXCEPT !.calls = Append(@, [token |-> r.token, outcome |-> how])]
    IN  IF how = "unauthorized" THEN [called EXCEPT !.pc = "auth"]
        ELSE [called EXCEPT !.pc = "done", !.result = ResultOf(how)]

\* function(url, headers, *args) in _request: inside the try statement (pc
\* "first") a NotAuthenticatedError leads to the authentication; the call
\* after the authentication (pc "second") is outside of it
Attempt(r, how) ==
    LET called == [r EXCEPT !.calls = Append(@, [token |-> r.token, outcome |-> how])]
    IN  IF how = "unauthorized" /\ r.pc = "first" THEN [called EXCEPT !.pc = "auth"]
        ELSE [called EXCEPT !.pc = "done", !.result = ResultOf(how)]

\* BaseAuthenticator.Authenticate: whether the server is asked, the result
\* and the access token afterwards
Authenticate(token, force, how) ==
    IF ~force /\ token # 0 THEN [asked |-> FALSE, ok |-> TRUE, raised |-> FALSE, token |-> token]
    ELSE [asked |-> TRUE, ok |-> how = "ok", raised |-> how = "raised",
          token |-> IF how = "ok" THEN token + 1 ELSE token]

\* the except clause of _request: self._authenticate(force=True)
Reauthenticate(r, how) ==
    LET a == Authenticate(r.token, TRUE, how)
        called == [r EXCEPT !.auths = Append(@, [force |-> TRUE, asked |-> a.asked,
                                                 outcome |-> how])]
    IN  IF a.raised THEN [called EXCEPT !.pc = "done", !.result = "raised"]
        ELSE IF ~a.ok THEN [called EXCEPT !.pc = "done", !.result = "False"]
        ELSE [called EXCEPT !.pc = "second", !.token = a.token, !.saved = @ + 1]

\* Server.__init__ with or without a stored access token
InitRequest ==
    /\ \E token \in {0, 1} : request = [NoRequest EXCEPT !.pc = "idle", !.token = token]
    /\ subs = NoSubs
    /\ InitOthersIdle

\* ApiGet, ApiPost or ApiDelete calls _request
ApiCall ==
    /\ request.pc \in {"idle", "done"}
    /\ request.n < MaxApiCalls
    /\ \E method \in {"ApiGet", "ApiPost", "ApiDelete"} :
          request' = [request EXCEPT !.pc = "first", !.method = method, !.calls = <<>>,
                                     !.auths = <<>>, !.result = "", !.n = @ + 1]
    /\ UNCHANGED <<importVars, pageVars, obsVars, hashVars, matchVars, pushVars, subsVars>>

\* the HTTP call inside the try statement
FirstAttempt ==
    /\ request.pc = "first"
    /\ \E how \in HttpOutcomes : request' = Attempt(request, how)
    /\ UNCHANGED <<importVars, pageVars, obsVars, hashVars, matchVars, pushVars, subsVars>>

\* the except clause: the authentication
RequestAuthenticate ==
    /\ request.pc = "auth"
    /\ \E how \in AuthOutcomes : request' = Reauthenticate(request, how)
    /\ UNCHANGED <<importVars, pageVars, obsVars, hashVars, matchVars, pushVars, subsVars>>

\* the HTTP call after the authentication
SecondAttempt ==
    /\ request.pc = "second"
    /\ \E how \in HttpOutcomes : request' = Attempt(request, how)
    /\ UNCHANGED <<importVars, pageVars, obsVars, hashVars, matchVars, pushVars, subsVars>>

NextRequest ==
    \/ ApiCall
    \/ FirstAttempt
    \/ RequestAuthenticate
    \/ SecondAttempt

SpecRequest == InitRequest /\ [][NextRequest]_vars


(***************************************************************************)
(* Properties of the import script (specification Spec).                   *)
(***************************************************************************)
\* the Emby ids of a list of host items
Ids(items) == [i \in 1..Len(items) |-> items[i].id]

\* the addImportItems calls of the run for a media type and a changeset type
CallsFor(mediaType, changeset) ==
    SelectSeq(addCalls, LAMBDA c : c.mediaType = mediaType /\ c.changeset = changeset)

\* the ids of the items of the server that a complete crawl of a media type in
\* the given views delivers
RECURSIVE CatalogueIds(_, _, _, _)
CatalogueIds(views, embyType, filtered, allowDirectPlay) ==
    IF views = <<>> THEN <<>>
    ELSE SelectSeq(ServerItems(Head(views), embyType, filtered),
                   LAMBDA id : Convertible(id, allowDirectPlay))
         \o CatalogueIds(Tail(views), embyType, filtered, allowDirectPlay)

\* C1: once a run has found the settings hash changed, no run selects the
\* fast synchronization until a run has reached finishImport.
C1_NoFastSyncWhileFullSyncDue == ~(run.fastSync /\ syncDue)

\* C2: in a run that finds the stored hash different from the computed one,
\* the new hash is persisted before any item page is requested and the run is
\* a full crawl: no fast synchronization, no sync queue fetched, no request
\* filtered by MinDateLastSavedForUser.
C2_ChangedHashForcesFullCrawl ==
    (pc # "idle" /\ run.changed) =>
        /\ storedHash = CalculateHash(mediaTypes, settings)
        /\ ~run.fastSync
        /\ ~run.queueFetched
        /\ \A i \in 1..Len(requests) : ~requests[i].filtered

C2_Witness ==
    /\ pc = "returned"
    /\ outcome = "finished"
    /\ run.changed
    /\ run.lastSyncedBefore # 0
    /\ settings.useKodiCompanion
    /\ run.plugin
    /\ requests # <<>>

\* C3: finishImport is called at most once per run and only after the loop
\* has handled every media type; a run that was cancelled or that got a bad
\* page response ends without finishImport and leaves the time of the last
\* synchronization as it was.
C3_FinishOnlyAfterAllMediaTypes ==
    /\ finishCalls <= 1
    /\ finishCalls = 1 =>
          /\ outcome = "finished"
          /\ run.progress = Len(mediaTypes)
          /\ lastSynced = run.lastSyncedBefore + 1
    /\ (pc # "idle" /\ outcome \in {"none", "cancelled", "exception"}) =>
          /\ finishCalls = 0
          /\ lastSynced = run.lastSyncedBefore

C3_Witness ==
    /\ pc = "returned"
    /\ outcome = "exception"
    /\ crawl.why = "invalid"
    /\ run.progress = 2
    /\ run.lastSyncedBefore # 0
    /\ addCalls # <<>>

\* C4: no exception leaves execImport, whatever its collaborators answer.
C4_ExecImportReturnsNormally == outcome # "exception"

\* C6: in a run over two media types, when shouldCancel first answers true
\* during the crawl of the second one, the items of the first one have been
\* handed to the host completely and nothing is handed over for the second.
C6_CancelInSecondTypeKeepsFirst ==
    (Len(mediaTypes) = 2 /\ run.cancelledIn = 2) =>
        LET first == mediaTypes[1]
            second == mediaTypes[2]
            expected == IF first = MediaTypeVideoCollection /\ ~settings.importCollections
                        THEN <<>>
                        ELSE CatalogueIds(run.views, getEmbyMediaType(first), run.fastSync,
                                          settings.allowDirectPlay)
            delivered == CallsFor(first, "changed")
        IN  /\ \A i \in 1..Len(addCalls) : addCalls[i].mediaType # second
            /\ IF expected = <<>> THEN delivered = <<>>
               ELSE Len(delivered) = 1 /\ Ids(delivered[1].items) = expected

C6_Witness ==
    /\ Len(mediaTypes) = 2
    /\ run.cancelledIn = 2
    /\ pc = "returned"
    /\ crawl.startIndex = 2
    /\ Len(requests) >= 3
    /\ CallsFor(mediaTypes[1], "changed") # <<>>

\* C7: in a fast synchronization of an import with one media type the Removed
\* batch holds exactly the imported items of that media type whose Emby id is
\* in the sync queue's removed list, each once; there is no Removed batch when
\* no imported item matches (and none before the media type was crawled).
C7_RemovedBatchExact ==
    (Len(mediaTypes) = 1 /\ run.fastSync /\ run.queueAnswer.ok) =>
        LET expected == SelectSeq(ImportedIds(mediaTypes[1]),
                                  LAMBDA id : id # "" /\ id \in Range(run.queueAnswer.itemsRemoved))
            removed == SelectSeq(addCalls, LAMBDA c : c.changeset = "removed")
            crawled == run.progress = 1 /\ (pc = "mediatype" \/ outcome = "finished")
        IN  IF crawled /\ expected # <<>>
            THEN /\ Len(removed) = 1
                 /\ removed[1].mediaType = mediaTypes[1]
                 /\ Ids(removed[1].items) = expected
            ELSE removed = <<>>

C7_Witness ==
    /\ mediaTypes = <<MediaTypeMovie>>
    /\ run.fastSync
    /\ run.queueAnswer = [ok |-> TRUE, itemsRemoved |-> <<"r1", "r2">>]
    /\ outcome = "finished"
    /\ Len(CallsFor(MediaTypeMovie, "removed")) = 1
    /\ Ids(CallsFor(MediaTypeMovie, "removed")[1].items) = <<"r1">>

\* C8: when the stored hash equals the computed one, the run is a fast
\* synchronization exactly if the import was synchronized before, the
\* companion setting is enabled and the plugin is installed on the server;
\* otherwise it is a full crawl.
C8_FastSyncIffEligible ==
    (pc # "idle" /\ outcome \notin {"aborted", "noviews"} /\ ~run.changed) =>
        /\ run.fastSync <=>
              (run.lastSyncedBefore # 0 /\ settings.useKodiCompanion /\ run.plugin)
        /\ run.queueFetched <=> run.fastSync
        /\ \A i \in 1..Len(requests) :
              requests[i].filtered <=> (run.fastSync /\ ~requests[i].raw)

C8_Witness ==
    /\ pc = "returned"
    /\ outcome = "finished"
    /\ ~run.changed
    /\ run.fastSync
    /\ \E i \in 1..Len(requests) : requests[i].filtered

\* C9: the run that follows a confirmed forceSync is never a fast
\* synchronization.
C9_ForcedRunIsFullCrawl == ~(run.forced /\ run.fastSync)

\* C11: an item carries a collection only in a movie crawl with collection
\* import enabled, after the primary crawl of every view has finished and a
\* BoxSet member crawl has returned; the tagged items are items of the
\* primary crawls (the list of retrieved items is exactly what the views
\* delivered) and members of a BoxSet whose member crawl has returned.
C11_CollectionsTaggedAfterCrawls ==
    LET tagged == { i \in 1..Len(run.items) : run.items[i].collection # "" }
    IN  tagged # {} =>
            /\ run.progress >= 1
            /\ CurrentMediaType = MediaTypeMovie
            /\ settings.importCollections
            /\ run.view > Len(run.views)
            /\ run.boxset > 1
            /\ Ids(run.items) = CatalogueIds(run.views, "Movie", run.fastSync,
                                             settings.allowDirectPlay)
            /\ \A i \in tagged :
                  \E b \in 1..(run.boxset - 1) :
                      /\ run.boxsets[b].name = run.items[i].collection
                      /\ run.items[i].id \in
                            Range(ServerItems(run.boxsets[b].id, "Movie", run.fastSync))

C11_Witness ==
    /\ outcome = "finished"
    /\ \E k \in 1..Len(addCalls) :
          /\ addCalls[k].mediaType = MediaTypeMovie
          /\ Ids(addCalls[k].items) = <<"m1", "m2", "m3", "m4">>
          /\ \A i \in 1..4 : addCalls[k].items[i].collection = (IF i = 3 THEN "c1" ELSE "")

\* C21: when getMatchingLibraryViews returns no view, execImport returns
\* before it crawls: the step leaves the persisted settings hash and the time
\* of the last synchronization as they were, no page was requested, and
\* addImportItems and finishImport were not called; and no run goes on
\* without a view.
C21_NoViewsAbortsBeforeCrawl ==
    /\ [](outcome = "noviews" =>
             requests = <<>> /\ addCalls = <<>> /\ finishCalls = 0 /\ run = NoRun)
    /\ [](run # NoRun => run.views # <<>>)
    /\ [][outcome' = "noviews" =>
             (outcome' = outcome \/ (storedHash' = storedHash /\ lastSynced' = lastSynced))]_vars

\* a synchronized import whose settings were changed afterwards is run
\* while no view matches: the run has ended, the stored hash is still the one
\* of the settings before the change
C21_Witness ==
    /\ outcome = "noviews"
    /\ pc = "returned"
    /\ lastSynced = 1
    /\ storedHash # NoHash
    /\ storedHash # CalculateHash(mediaTypes, settings)
    /\ requests = <<>>

\* the imported items of a media type whose Emby id is in the removed list
\* that the sync queue of the run delivered
ExpectedRemoved(mediaType) ==
    SelectSeq(ImportedIds(mediaType),
              LAMBDA id : id # "" /\ id \in Range(run.queueAnswer.itemsRemoved))

\* C23: in a finished fast synchronization over several media types, every
\* media type that has imported items with an id of the sync queue's removed
\* list got a Removed batch with exactly these items, also the media types
\* processed after the first one.
C23_LaterMediaTypeRemovedReported ==
    (run.fastSync /\ run.queueAnswer.ok /\ outcome = "finished") =>
        \A k \in 1..Len(mediaTypes) :
            ExpectedRemoved(mediaTypes[k]) # <<>> =>
                /\ Len(CallsFor(mediaTypes[k], "removed")) = 1
                /\ Ids(CallsFor(mediaTypes[k], "removed")[1].items)
                       = ExpectedRemoved(mediaTypes[k])

\* C24 as stated: a forceSync that the user confirmed and that got the
\* import's settings clears the persisted time of the last synchronization and
\* leaves the stored hash as it was.
C24_ForceSyncClearsOnlyTimestamp ==
    [][(forceSync /\ unsavedHash'.edited) =>
          (lastSynced' = 0 /\ storedHash' = storedHash)]_vars

\* C24: forceSync leaves the persisted time of the last synchronization and
\* the persisted hash as they were; what it changes, when the user confirmed
\* and the settings were prepared, is the hash setting of the settings object,
\* which it sets to the empty string without saving.
C24_ForceSyncResetsUnsavedHash ==
    [][forceSync =>
          /\ lastSynced' = lastSynced
          /\ storedHash' = storedHash
          /\ \/ unsavedHash' = unsavedHash
             \/ unsavedHash' = [edited |-> TRUE, value |-> NoHash]]_vars

\* forceSync has reset the hash setting of an import that was synchronized
\* before: both persisted values are still there
C24_Witness ==
    /\ forceRequested
    /\ unsavedHash = [edited |-> TRUE, value |-> NoHash]
    /\ lastSynced = 1
    /\ storedHash # NoHash

\* the page request that importItems has just made
LastRequestIsOfCrawl ==
    /\ requests # <<>>
    /\ requests[Len(requests)] = [parent |-> crawl.parent, embyType |-> crawl.embyType,
                                  startIndex |-> crawl.startIndex, filtered |-> crawl.filtered,
                                  raw |-> crawl.raw]

\* C31: once a page response without Items or TotalRecordCount was received
\* in the crawl of a media type, the run has no addImportItems call for that
\* media type, the rejected request is the last request of the run and was
\* made once, and until the script returns to the host the run makes neither
\* a request nor an addImportItems call.
C31_InvalidPageEndsMediaType ==
    /\ [](crawl.why = "invalid" =>
            /\ \A c \in 1..Len(addCalls) : addCalls[c].mediaType # CurrentMediaType
            /\ LastRequestIsOfCrawl
            /\ crawl.requests[Len(crawl.requests)] = crawl.startIndex
            /\ \A i \in 1..(Len(crawl.requests) - 1) : crawl.requests[i] # crawl.startIndex
            /\ crawl.status = "none")
    /\ [][(crawl.why = "invalid" /\ pc' # "idle") =>
             (requests' = requests /\ addCalls' = addCalls)]_vars

\* the second page of the second media type was rejected; the items of the
\* first media type had been handed over, the run ended by the exception
C31_Witness ==
    /\ crawl.why = "invalid"
    /\ outcome = "exception"
    /\ run.progress = 2
    /\ Len(crawl.requests) = 2
    /\ crawl.items # <<>>
    /\ CallsFor(mediaTypes[1], "changed") # <<>>
    /\ CallsFor(mediaTypes[2], "changed") = <<>>

(***************************************************************************)
(* Properties of the example (specification SpecExample).                  *)
(***************************************************************************)
\* the page requests of the run for an Emby type below a parent
RequestsFor(parent, embyType) ==
    SelectSeq(requests, LAMBDA r : r.parent = parent /\ r.embyType = embyType)

\* the page requests of the run for an Emby type
RequestsOfType(embyType) == SelectSeq(requests, LAMBDA r : r.embyType = embyType)

\* a finished full crawl of the two views of the example with the import of
\* collections enabled
ExampleRunFinished ==
    /\ outcome = "finished"
    /\ run.views = ExampleViews
    /\ ~run.fastSync
    /\ settings.importCollections

\* the 15 movies of the example are handed over in one call, M3 labelled C1
\* and no other item labelled
ExampleItemsEmitted ==
    /\ Len(addCalls) = 1
    /\ addCalls[1].mediaType = MediaTypeMovie
    /\ addCalls[1].changeset = "changed"
    /\ Len(addCalls[1].items) = 15
    /\ Ids(addCalls[1].items) = Catalogue("L1", "Movie") \o Catalogue("L2", "Movie")
    /\ \A i \in 1..15 :
          addCalls[1].items[i].collection = (IF addCalls[1].items[i].id = "M3" THEN "C1" ELSE "")

\* C12 as stated: in the example (movies, collections enabled, views of 10
\* and 5 items, collection C1 containing M3) 15 items are emitted, only M3
\* labelled C1, after exactly 2 page requests against the first view, 1
\* against the second, 1 BoxSet listing request and 1 member request.
C12_ExampleRequestCounts ==
    ExampleRunFinished =>
        /\ ExampleItemsEmitted
        /\ Len(RequestsFor("L1", "Movie")) = 2
        /\ Len(RequestsFor("L2", "Movie")) = 1
        /\ Len(RequestsOfType(EMBY_MEDIATYPE_BOXSET)) = 1
        /\ Len(RequestsFor("C1", "Movie")) = 1

\* C12 (amended): in the example 15 items are emitted, only M3 labelled C1,
\* after exactly five page requests, in this order: one for the movies of
\* the first view, one BoxSet listing of the first view, one for the movies
\* of the second view, one BoxSet listing of the second view, and one for
\* the members of C1; each starts at index 0.
C12_ExampleOnePagePerViewAndListing ==
    ExampleRunFinished =>
        /\ ExampleItemsEmitted
        /\ [i \in 1..Len(requests) |-> <<requests[i].parent, requests[i].embyType,
                                         requests[i].startIndex>>]
              = << <<"L1", "Movie", 0>>, <<"L1", EMBY_MEDIATYPE_BOXSET, 0>>,
                   <<"L2", "Movie", 0>>, <<"L2", EMBY_MEDIATYPE_BOXSET, 0>>,
                   <<"C1", "Movie", 0>> >>

C12_Witness ==
    /\ ExampleRunFinished
    /\ Len(requests) = 5
    /\ Len(addCalls) = 1
    /\ \E i \in 1..Len(addCalls[1].items) :
          addCalls[1].items[i].id = "M3" /\ addCalls[1].items[i].collection = "C1"

(***************************************************************************)
(* Properties of the provider sessions (specification SpecObs).            *)
(***************************************************************************)
\* C5: every Process call returns normally, so that no exception leaves the
\* poll loop of the service.
C5_ProcessReturnsNormally ==
    /\ service.state # "raised"
    /\ \A i \in 1..Len(tickLog) : tickLog[i].returned

\* the session of a provider, as _observers holds it
SessionOf(id) == observers[ObserverIndex(id)]

\* the Process calls of the current iteration of the poll loop whose last
\* receive ended in the given way, for sessions the service still holds
TicksEnding(end) ==
    { i \in 1..Len(tickLog) : tickLog[i].end = end /\ ObserverIndex(tickLog[i].id) # 0 }

\* C13: when a receive of a connected session returns nothing (the peer has
\* closed the connection), the session is disconnected once that Process call
\* has ended.
C13_EndOfStreamDisconnects ==
    \A i \in TicksEnding("none") : ~SessionOf(tickLog[i].id).connected

\* C14: when a receive of a connected session raises an exception other than
\* a timeout, Process returns normally and the session is disconnected once
\* that Process call has ended.
C14_ReceiveErrorDisconnects ==
    \A i \in TicksEnding("error") :
        tickLog[i].returned /\ ~SessionOf(tickLog[i].id).connected

\* the positions of the history of the i-th Process call of the tick at which
\* an action of the given kind was taken from the queue
Taken(i, action) ==
    { k \in 1..Len(tickLog[i].log) : tickLog[i].log[k].op = action }

\* a Start that finds the session connected, with a provider that differs
\* from the current one in the identifier, the base address or one of the
\* display name, device id, user and password
StartWithChangedProvider(e) ==
    /\ e.op = "Start"
    /\ e.state.connected
    /\ \/ e.provider.id # e.state.mediaProvider.id
       \/ e.provider.basePath # e.state.mediaProvider.basePath
       \/ e.provider.rev # e.state.mediaProvider.rev

\* C15: a Start processed while the session is connected, with a provider
\* that differs from the current one in identifier, base address, display
\* name, device id, user or password, first closes the transport, so that the
\* session is disconnected before anything else is done with the new
\* provider.
C15_ChangedProviderClosesTransport ==
    \A i \in 1..Len(tickLog) :
        \A k \in Taken(i, "Start") :
            LET log == tickLog[i].log
            IN  StartWithChangedProvider(log[k]) =>
                    /\ k + 2 <= Len(log)
                    /\ log[k + 1].op = "close"
                    /\ ~log[k + 2].state.connected
                    /\ log[k + 2].op \in {"authenticate", "return"}

\* a Start that finds the session connected to a provider that
\* compareMediaProviders reports equal to the new one
StartWithUnchangedProvider(e) ==
    /\ e.op = "Start"
    /\ e.state.connected
    /\ compareMediaProviders(e.state.mediaProvider, e.provider)

\* C16: a Start processed while the session is connected to a provider that
\* compareMediaProviders reports equal to the new one closes nothing, does
\* not authenticate and does not connect; it returns at once with the session
\* still connected, the same server and websocket, and only the cached
\* provider and settings replaced.
C16_UnchangedProviderKeepsTransport ==
    \A i \in 1..Len(tickLog) :
        \A k \in Taken(i, "Start") :
            LET log == tickLog[i].log
            IN  StartWithUnchangedProvider(log[k]) =>
                    /\ k + 1 <= Len(log)
                    /\ log[k + 1].op = "return"
                    /\ log[k + 1].ok
                    /\ log[k + 1].state.connected
                    /\ log[k + 1].state.websocket = "connected"
                    /\ log[k + 1].state =
                          [log[k].state EXCEPT !.mediaProvider = log[k].provider,
                                               !.settings = log[k].provider.settingsOk]

\* a connected session was started again with an equal provider, and the
\* cached provider was replaced by a different object
C16_Witness ==
    \E i \in 1..Len(tickLog) :
        \E k \in Taken(i, "Start") :
            LET log == tickLog[i].log
            IN  /\ StartWithUnchangedProvider(log[k])
                /\ log[k].provider # log[k].state.mediaProvider
                /\ log[k + 1].op = "return"
                /\ log[k + 1].state.connected
                /\ log[k + 1].state.mediaProvider = log[k].provider

\* a session that is not connected and has neither a server nor a provider
Disconnected(state) ==
    /\ ~state.connected
    /\ ~state.server
    /\ state.mediaProvider = NoProvider

\* the positions of the history of the i-th Process call at which the
\* authentication or the websocket connect failed
FailedAt(i) ==
    { k \in 1..Len(tickLog[i].log) :
        tickLog[i].log[k].op \in {"authenticate", "connect"} /\ ~tickLog[i].log[k].ok }

\* the last Start that the i-th Process call took from the queue failed to
\* authenticate or to connect
LastStartFailed(i) ==
    \E k \in FailedAt(i) : \A j \in Taken(i, "Start") : j < k

\* C17: when the authentication or the websocket connect of a Start fails,
\* the Start returns normally and leaves the session disconnected, without
\* server and provider; when it was the last Start of the tick, the Process
\* call ends with the session in that state and with an empty action queue;
\* and nothing authenticates or connects except a Start taken from the queue,
\* so that no attempt is repeated unless Start is called again.
C17_FailedStartLeavesDisconnectedNoRetry ==
    \A i \in 1..Len(tickLog) :
        LET log == tickLog[i].log
        IN  /\ \A k \in FailedAt(i) :
                  /\ k + 1 <= Len(log)
                  /\ log[k + 1].op = "return"
                  /\ log[k + 1].ok
                  /\ Disconnected(log[k + 1].state)
            /\ (tickLog[i].returned /\ LastStartFailed(i)) =>
                  /\ Disconnected(Snapshot(tickLog[i].after))
                  /\ tickLog[i].after.actions = <<>>
            /\ \A k \in 1..Len(log) :
                  log[k].op \in {"authenticate", "connect"} =>
                      \E j \in Taken(i, "Start") :
                          /\ j < k
                          /\ log[j].provider = log[k].provider
                          /\ \A m \in (j + 1)..(k - 1) : log[m].op \in {"close", "authenticate"}
            /\ Taken(i, "Start") = {} =>
                  \A k \in 1..Len(log) : log[k].op \in {"Stop", "close", "return"}

\* one Process call in which a first Start failed to authenticate and a
\* second one failed to connect
C17_Witness ==
    \E i \in 1..Len(tickLog) :
        /\ tickLog[i].returned
        /\ LastStartFailed(i)
        /\ \E k \in FailedAt(i) : tickLog[i].log[k].op = "authenticate"
        /\ \E k \in FailedAt(i) : tickLog[i].log[k].op = "connect"
        /\ Disconnected(Snapshot(tickLog[i].after))
        /\ tickLog[i].after.actions = <<>>

\* C18: a Stop processed while the session is connected closes the websocket
\* and leaves the session disconnected; a Stop processed while it is
\* disconnected changes nothing; so a second Stop directly after a first one
\* leaves the state the first one left, and applying _StopAction twice to any
\* session gives what applying it once gives.
C18_StopClosesOnceThenNoOp ==
    /\ \A i \in 1..Len(tickLog) :
          \A k \in Taken(i, "Stop") :
              LET log == tickLog[i].log
              IN  IF log[k].state.connected
                  THEN /\ k + 2 <= Len(log)
                       /\ log[k + 1].op = "close"
                       /\ log[k + 2].op = "return"
                       /\ log[k + 2].state.websocket = "closed"
                       /\ Disconnected(log[k + 2].state)
                       /\ (k + 4 <= Len(log) /\ log[k + 3].op = "Stop") =>
                              /\ log[k + 4].op = "return"
                              /\ log[k + 4].state = log[k + 2].state
                  ELSE /\ k + 1 <= Len(log)
                       /\ log[k + 1].op = "return"
                       /\ log[k + 1].state = log[k].state
    /\ \A j \in 1..Len(observers) :
          StopAction(StopAction(observers[j], FALSE), FALSE) = StopAction(observers[j], FALSE)

\* one Process call in which a connected session processed two Stops in a row
C18_Witness ==
    \E i \in 1..Len(tickLog) :
        \E k \in Taken(i, "Stop") :
            LET log == tickLog[i].log
            IN  /\ log[k].state.connected
                /\ k + 4 <= Len(log)
                /\ log[k + 1].op = "close"
                /\ log[k + 3].op = "Stop"
                /\ log[k + 4].op = "return"
                /\ ~log[k + 4].state.connected

\* no two sessions of the service belong to the same provider identifier
OneObserverPerProvider ==
    \A i, j \in 1..Len(observers) : observers[i].id = observers[j].id => i = j

\* a callback that adds or activates a provider leaves every session the
\* service holds in place, with its connection, its provider and its imports,
\* and with at most one more queued action; at most one session is added
ObserversReused ==
    /\ Len(observers') \in {Len(observers), Len(observers) + 1}
    /\ \A i \in 1..Len(observers) :
          /\ observers'[i].id = observers[i].id
          /\ Snapshot(observers'[i]) = Snapshot(observers[i])
          /\ observers'[i].imports = observers[i].imports
          /\ observers'[i].actions \in
                ({observers[i].actions} \cup
                 { Append(observers[i].actions, [action |-> "Start", data |-> mp]) :
                   mp \in MediaProviders })

C25_OneCallPerImportPerTick ==
    \A i \in 1..Len(tickLog) :
        \A a, b \in 1..Len(tickLog[i].calls) :
            tickLog[i].calls[a].mediaImport = tickLog[i].calls[b].mediaImport => a = b

\* the step is one Process call of the poll loop
ProcessStep ==
    /\ service.state = "running"
    /\ service.pos \in 1..Len(observers)
    /\ Len(tickLog') = Len(tickLog) + 1

\* the step is taken while the service waits in waitForAbort and is not the
\* begin of an iteration of the poll loop: a callback of the host or the end
\* of the loop
RequestStep == InWaitForAbort /\ service'.pos = 0

\* the actions a Process call took from the queue, in the order of its history
TakenActions(log) ==
    LET taken == SelectSeq(log, LAMBDA l : l.op \in {"Start", "Stop"})
    IN  [k \in 1..Len(taken) |-> [action |-> taken[k].op, data |-> taken[k].provider]]

\* the last Start of the history authenticated and connected
LastStartConnected(log) ==
    \E k \in 1..Len(log) :
        /\ log[k].op = "connect"
        /\ log[k].ok
        /\ \A j \in (k + 1)..Len(log) : log[j].op = "return"

\* outside of Process a session changes in its queue only, and a request is
\* added at the end of the queue
RequestsOnlyQueued ==
    RequestStep =>
        \A i \in 1..Len(observers), j \in 1..Len(observers') :
            observers'[j].id = observers[i].id =>
                /\ Snapshot(observers'[j]) = Snapshot(observers[i])
                /\ \/ observers'[j].actions = observers[i].actions
                   \/ /\ Len(observers'[j].actions) = Len(observers[i].actions) + 1
                      /\ SubSeq(observers'[j].actions, 1, Len(observers[i].actions))
                            = observers[i].actions

\* what the last action of the queue leaves when the Process call returns:
\* not connected after a Stop, connected after a Start that follows a Stop
\* and authenticates and connects
LastActionDecides(o, e) ==
    LET n == Len(o.actions)
    IN  /\ (n >= 1 /\ o.actions[n].action = "Stop") => ~e.after.connected
        /\ (n >= 2 /\ o.actions[n - 1].action = "Stop" /\ o.actions[n].action = "Start"
              /\ LastStartConnected(e.log)) =>
                 /\ e.after.connected
                 /\ e.after.mediaProvider = o.actions[n].data

ConnectedHoldsAll(state) ==
    state.connected =>
        /\ state.mediaProvider # NoProvider
        /\ state.server
        /\ state.websocket # "none"

\* C35: between Process calls a connected session holds a provider, a Server
\* instance and a websocket; a Stop taken from the queue returns with the
\* session not connected and without provider and Server instance, and so
\* does a Start whose websocket connect failed; when that Stop or Start was
\* the last action of the Process call, the session is left in that state.
C35_ConnectedHoldsProviderServerTransport ==
    /\ \A i \in 1..Len(observers) : ConnectedHoldsAll(Snapshot(observers[i]))
    /\ \A i \in 1..Len(tickLog) :
          LET log == tickLog[i].log
          IN  /\ ConnectedHoldsAll(Snapshot(tickLog[i].after))
              /\ \A k \in 1..Len(log) :
                    \/ log[k].op = "Stop"
                    \/ (log[k].op = "connect" /\ ~log[k].ok)
                    => \E r \in (k + 1)..Len(log) :
                          /\ log[r].op = "return"
                          /\ \A j \in (k + 1)..(r - 1) : log[j].op = "close"
                          /\ Disconnected(log[r].state)
                          /\ r = Len(log) => Disconnected(Snapshot(tickLog[i].after))

\* one Process call in which a connected session processed a Stop and then a
\* Start whose websocket connect failed
C35_Witness ==
    \E i \in 1..Len(tickLog) :
        LET log == tickLog[i].log
        IN  /\ \E k \in Taken(i, "Stop") : log[k].state.connected
            /\ \E k \in FailedAt(i) : log[k].op = "connect" /\ k + 1 = Len(log)
            /\ Disconnected(Snapshot(tickLog[i].after))
            /\ tickLog[i].after.websocket # "none"

\* C37: a Process call, whatever Stop and Start actions it takes from the
\* queue and however their authentication and connect end, leaves the list
\* of imports of the session as it was, and every changeImportedItems call
\* it makes is for an import of that list.
C37_ProcessKeepsImports ==
    [][ProcessStep =>
          LET o == observers[service.pos]
              e == tickLog'[Len(tickLog')]
          IN  /\ observers'[service.pos].imports = o.imports
              /\ e.after.imports = o.imports
              /\ \A c \in 1..Len(e.calls) : e.calls[c].mediaImport \in Range(o.imports)]_vars

\* a Process call closed the websocket of a connected session, connected
\* again and delivered a change to an import of the session
C37_Witness ==
    \E i \in 1..Len(tickLog) :
        LET e == tickLog[i]
        IN  /\ e.returned
            /\ \E k \in 1..Len(e.log) : e.log[k].op = "close" /\ e.log[k].state.connected
            /\ LastStartConnected(e.log)
            /\ e.after.connected
            /\ e.calls # <<>>
            /\ e.calls[1].mediaImport \in Range(e.after.imports)

\* C38: a Process call of a session that is not connected when the actions
\* are processed reads no frame and makes no changeImportedItems call,
\* whatever the server has sent; frames are read and calls are made only by
\* the Process calls of a connected session.
C38_DisconnectedReadsNothing ==
    \A i \in 1..Len(tickLog) :
        /\ ~tickLog[i].after.connected => (tickLog[i].read = 0 /\ tickLog[i].calls = <<>>)
        /\ (tickLog[i].read > 0 \/ tickLog[i].calls # <<>>) =>
              (tickLog[i].returned /\ tickLog[i].after.connected)

\* in one iteration of the poll loop, a session with an import that
\* took a Stop from the queue while connected read nothing, and another
\* session, connected, made a call
C38_Witness ==
    \E i, j \in 1..Len(tickLog) :
        /\ tickLog[i].returned
        /\ ~tickLog[i].after.connected
        /\ \E k \in Taken(i, "Stop") : tickLog[i].log[k].state.connected
        /\ tickLog[i].read = 0
        /\ tickLog[j].after.connected
        /\ tickLog[j].read > 0

(***************************************************************************)
(* Properties of the settings hash (specification SpecHash).               *)
(***************************************************************************)
\* what the change of one setting has changed
CompanionChanged == hashEdit.from.useKodiCompanion # settings.useKodiCompanion
DirectPlayChanged == hashEdit.from.allowDirectPlay # settings.allowDirectPlay
CollectionsChanged == hashEdit.from.importCollections # settings.importCollections
\* the view selection is what GetLibraryViews returns: the specific views,
\* or none when all views are imported
ViewSelectionChanged == GetLibraryViews(hashEdit.from) # GetLibraryViews(settings)

\* movies or collections are among the requested media types
CollectionsConsidered ==
    MediaTypeMovie \in Range(mediaTypes) \/ MediaTypeVideoCollection \in Range(mediaTypes)

\* C20 as stated: for every set of requested media types, the hash differs
\* after a change of the direct-play flag, the view selection, the
\* collection-import flag or the companion-usage flag, and is the same after
\* a change of another setting.
C20_HashChangesWithAnyOfFour ==
    hashEdit.phase = "recalculated" =>
        IF CompanionChanged \/ DirectPlayChanged \/ ViewSelectionChanged \/ CollectionsChanged
        THEN hashEdit.hashAfter # hashEdit.hashBefore
        ELSE hashEdit.hashAfter = hashEdit.hashBefore

\* C20 (amended): the hash differs after a change of the direct-play flag,
\* of the view selection or of the companion-usage flag, and after a change
\* of the collection-import flag when movies or collections are among the
\* requested media types; it is the same after every other change, a change
\* of the collection-import flag of an import without movies and collections
\* included.
C20_HashChangesWithConsideredSettings ==
    hashEdit.phase = "recalculated" =>
        ((hashEdit.hashAfter # hashEdit.hashBefore) <=>
            \/ CompanionChanged
            \/ DirectPlayChanged
            \/ ViewSelectionChanged
            \/ (CollectionsChanged /\ CollectionsConsidered))

\* the collection-import flag of an import of tv shows was changed and the
\* hash was computed again: it is the one saved before
C20_Witness ==
    /\ hashEdit.phase = "recalculated"
    /\ mediaTypes = <<MediaTypeTvShow>>
    /\ CollectionsChanged
    /\ storedHash = hashEdit.hashBefore
    /\ storedHash # NoHash

(***************************************************************************)
(* Properties of the resolution of removed ids (specification SpecMatch).  *)
(***************************************************************************)
\* the first imported item that carries the id, as a list (empty: no match)
FirstWithId(items, id) ==
    LET matches == SelectSeq(items, LAMBDA i : i.id = id)
    IN  IF matches = <<>> THEN <<>> ELSE <<matches[1]>>

FirstIndex(imports, mediaType) ==
    LET matches == { i \in 1..Len(imports) : mediaType \in Range(imports[i].mediaTypes) }
    IN  IF matches = {} THEN 0 ELSE CHOOSE i \in matches : \A j \in matches : i <= j

\* the changed items of the changeImportedItems calls for a media import, in
\* the order of the calls
RECURSIVE DeliveredTo(_, _)
DeliveredTo(calls, mediaImport) ==
    IF calls = <<>> THEN <<>>
    ELSE (IF Head(calls).mediaImport = mediaImport THEN Head(calls).items ELSE <<>>)
         \o DeliveredTo(Tail(calls), mediaImport)

\* C26: every changeImportedItems call of a Process call is for an import of
\* the session, and what is delivered to an import are exactly the resolved
\* change events whose media type this import is the first of the list to
\* contain, each once; an event whose media type no import contains is in no
\* call.
C26_EventGoesToFirstMatchingImport ==
    push.processed =>
        /\ \A c \in 1..Len(push.calls) :
              /\ push.calls[c].mediaImport \in Range(push.at)
              /\ push.calls[c].items # <<>>
        /\ \A k \in 1..Len(push.at) :
              DeliveredTo(push.calls, push.at[k])
                 = SelectSeq(push.items,
                             LAMBDA e : FirstIndex(push.at, e.item.mediaType) = k)

\* two imports of the session contain the media type movie: the added movie
\* went to the first of them only, the tvshow to the second, which alone
\* contains its media type
C26_Witness ==
    /\ push.processed
    /\ Len(push.at) = 2
    /\ MediaTypeMovie \in Range(push.at[1].mediaTypes)
    /\ MediaTypeMovie \in Range(push.at[2].mediaTypes)
    /\ MediaTypeTvShow \notin Range(push.at[1].mediaTypes)
    /\ Len(push.calls) = 2
    /\ push.calls[1].mediaImport = push.at[1]
    /\ push.calls[2].mediaImport = push.at[2]
    /\ \E i \in 1..Len(push.calls[1].items) :
          push.calls[1].items[i].item.mediaType = MediaTypeMovie
    /\ \A i \in 1..Len(push.calls[2].items) :
          push.calls[2].items[i].item.mediaType = MediaTypeTvShow

\* a LibraryChanged message that its handler goes through to the end
CompleteLibraryChanged(f) ==
    /\ f.json = "object" /\ f.hasType /\ f.hasData
    /\ f.MessageType = WS_MESSAGE_TYPE_LIBRARY_CHANGED
    /\ f.Data.complete
    /\ \A id \in Range(f.Data.ItemsAdded) \cup Range(f.Data.ItemsUpdated) : ~GetItemRaises(id)

\* the imported items of the provider that carry the Emby id
ImportedWithId(id) == SelectSeq(getImportedItemsByProvider, LAMBDA i : i.id = id)

\* for the ids of a removed list that an imported item carries, the first
\* imported item with the id
RECURSIVE FirstImported(_)
FirstImported(ids) ==
    IF ids = <<>> THEN <<>>
    ELSE (IF ImportedWithId(Head(ids)) = <<>> THEN <<>> ELSE <<ImportedWithId(Head(ids))[1]>>)
         \o FirstImported(Tail(ids))

\* the items the removed ids of the frames stand for
RECURSIVE RemovedItemsOf(_)
RemovedItemsOf(frames) ==
    IF frames = <<>> THEN <<>>
    ELSE (IF CompleteLibraryChanged(Head(frames))
          THEN FirstImported(Head(frames).Data.ItemsRemoved) ELSE <<>>)
         \o RemovedItemsOf(Tail(frames))

\* the Removed change events handed to _ChangeItems in the Process call
RemovedEvents ==
    SelectSeq(push.items, LAMBDA e : e.changeset = MediaImportChangesetTypeRemoved)

ChangeMessage(f) ==
    /\ f.json = "object" /\ f.hasType /\ f.hasData
    /\ f.MessageType \in {WS_MESSAGE_TYPE_LIBRARY_CHANGED, WS_MESSAGE_TYPE_USER_DATA_CHANGED}
    /\ f.Data.complete

\* the ids of a message for which the item is requested from the server
RequestedIds(f) ==
    Range(f.Data.ItemsAdded) \cup Range(f.Data.ItemsUpdated) \cup Range(f.Data.UserDataList)

\* C28: of every change message read in a Process call, each added, updated
\* or user-data-changed id whose request neither fails nor returns nothing is
\* among the change events handed on, whatever happens to the other ids of
\* the message.
C28_OtherIdsStillDelivered ==
    push.processed =>
        \A f \in 1..push.read :
            ChangeMessage(push.frames[f]) =>
                \A id \in RequestedIds(push.frames[f]) :
                    (id # "" /\ ~GetItemRaises(id) /\ GetItemDetails(id) # NoItem) =>
                        \E e \in 1..Len(push.items) : push.items[e].item.id = id

\* a parsed frame without MessageType or Data, or with a MessageType other
\* than LibraryChanged and UserDataChanged (ServerShuttingDown,
\* ServerRestarting or one the code does not know)
OtherFrame(f) ==
    /\ f.json = "object"
    /\ \/ ~f.hasType
       \/ ~f.hasData
       \/ f.MessageType \notin {WS_MESSAGE_TYPE_LIBRARY_CHANGED,
                                WS_MESSAGE_TYPE_USER_DATA_CHANGED}

\* C29: a frame that lacks MessageType or Data or carries a MessageType other
\* than LibraryChanged and UserDataChanged leaves the session connected, is
\* followed by the reading of the next frame, and adds no changeImportedItems
\* call: the calls of the Process call are those of the other frames alone.
C29_OtherFramesIgnored ==
    push.processed =>
        /\ push.connected
        /\ \A f \in 1..Len(push.frames) :
              (f <= push.read /\ OtherFrame(push.frames[f]) /\ f < Len(push.frames)) =>
                  push.read > f
        /\ (\A f \in 1..Len(push.frames) : OtherFrame(push.frames[f])) =>
              (push.calls = <<>> /\ push.read = Len(push.frames))
        /\ push.calls =
              ProcessMessages(ConnectedSession(push.at),
                              SelectSeq(push.frames, LAMBDA f : ~OtherFrame(f))).calls

\* a ServerShuttingDown message was read, then the LibraryChanged message
\* behind it, which led to a call
C29_Witness ==
    /\ push.processed
    /\ push.connected
    /\ Len(push.frames) = 2
    /\ push.frames[1].MessageType = WS_MESSAGE_TYPE_SERVER_SHUTTING_DOWN
    /\ push.frames[1].hasData
    /\ push.frames[2].MessageType = WS_MESSAGE_TYPE_LIBRARY_CHANGED
    /\ push.read = 2
    /\ Len(push.calls) = 1

\* C30: the imports of the session are exactly those whose last callback was
\* AddImport, so that an import is out of the list from its RemoveImport
\* until it is added again; a Process call makes no changeImportedItems call
\* for an import outside the list, and every resolved event whose first
\* matching import of the list is I is in a call for I.
C30_CallsFollowAddAndRemove ==
    /\ Range(push.imports) = push.registered
    /\ push.removed \cap Range(push.imports) = {}
    /\ (push.processed /\ push.at = push.imports) =>
          /\ \A c \in 1..Len(push.calls) :
                /\ push.calls[c].mediaImport \notin push.removed
                /\ push.calls[c].mediaImport \in push.registered
          /\ \A e \in 1..Len(push.items), I \in push.registered :
                (/\ FirstIndex(push.imports, push.items[e].item.mediaType) # 0
                 /\ push.imports[FirstIndex(push.imports, push.items[e].item.mediaType)] = I)
                    => \E c \in 1..Len(push.calls) :
                          /\ push.calls[c].mediaImport = I
                          /\ push.items[e] \in Range(push.calls[c].items)

\* the import for movies was added and removed again, the import for movies
\* and tvshows was added: the message with an added movie and an updated
\* tvshow led to one call, for the import that is left
C30_Witness ==
    /\ push.processed
    /\ push.at = push.imports
    /\ Len(push.imports) = 1
    /\ push.imports[1].mediaTypes = <<MediaTypeMovie, MediaTypeTvShow>>
    /\ \E I \in push.removed : I.mediaTypes = <<MediaTypeMovie>>
    /\ \E e \in 1..Len(push.items) : push.items[e].item.mediaType = MediaTypeMovie
    /\ Len(push.calls) = 1
    /\ push.calls[1].mediaImport = push.imports[1]

(***************************************************************************)
(* Properties of importItems (specification SpecPages).                    *)
(***************************************************************************)
RECURSIVE Sum(_)
Sum(seq) == IF seq = <<>> THEN 0 ELSE Head(seq) + Sum(Tail(seq))

\* ceil(a / b)
Ceil(a, b) == (a + b - 1) \div b

\* the number of items the server has sent before its i-th page
ServedBefore(i) == Sum(SubSeq(pageServer.served, 1, i - 1))

\* every page served holds as many items as the page size allows
FullPages ==
    \A i \in 1..Len(pageServer.served) :
        pageServer.served[i] = Min(PageLimit, Len(pageServer.items) - ServedBefore(i))

\* the records importItems returns for the view: every object in raw mode,
\* else the items that toFileItem converts
ExpectedRecords ==
    IF crawl.raw THEN pageServer.items
    ELSE SelectSeq(pageServer.items, LAMBDA id : Convertible(id, crawl.allowDirectPlay))

\* C10 as stated: once the pages served add up to the total, importItems has
\* returned after exactly ceil(total / pageSize) page requests, each with
\* StartIndex equal to the number of items received before, with exactly
\* total records.
C10_CeilRequestsTotalRecords ==
    (crawl.status = "done" /\ Sum(pageServer.served) = Len(pageServer.items)) =>
        /\ Len(crawl.requests) = Ceil(Len(pageServer.items), PageLimit)
        /\ \A i \in 1..Len(crawl.requests) : crawl.requests[i] = ServedBefore(i)
        /\ Len(crawl.items) = Len(pageServer.items)

\* C10 (amended): every page request carries as StartIndex the number of
\* items received before; importItems returns exactly when, after at least
\* one request, the items received reach the total; when every page is
\* full that is after max(1, ceil(total / pageSize)) requests; and it
\* returns one record for every object of the view in raw mode, else for
\* every item that toFileItem converts, in the order of the server and none
\* repeated.
C10_PagedCrawlReturnsConvertedItems ==
    pc = "crawl" =>
        /\ Len(pageServer.served) = Len(crawl.requests)
        /\ \A i \in 1..Len(crawl.requests) : crawl.requests[i] = ServedBefore(i)
        /\ crawl.status \in {"running", "done"}
        /\ crawl.status = "done" <=>
              (crawl.requests # <<>> /\ Sum(pageServer.served) >= Len(pageServer.items))
        /\ (crawl.status = "done" /\ FullPages) =>
              Len(crawl.requests) = Max(1, Ceil(Len(pageServer.items), PageLimit))
        /\ crawl.status = "done" =>
              /\ Ids(crawl.items) = ExpectedRecords
              /\ \A i, j \in 1..Len(crawl.items) : crawl.items[i] = crawl.items[j] => i = j

C10_Witness ==
    /\ crawl.status = "done"
    /\ FullPages
    /\ Len(crawl.requests) = 3
    /\ ~crawl.raw
    /\ Len(crawl.items) = Len(pageServer.items) - 1

\* C32 as stated: importItems comes to its end whatever the well-formed
\* pages: every page request but the last brings the number of items
\* received closer to the total, so no StartIndex is requested twice and the
\* loop makes at most max(1, total) requests.
C32_EveryPageAdvances ==
    pc = "crawl" =>
        /\ \A i, j \in 1..Len(crawl.requests) : crawl.requests[i] = crawl.requests[j] => i = j
        /\ Len(crawl.requests) <= Max(1, Len(pageServer.items))

(***************************************************************************)
(* Properties of the list of imports (specification SpecImports).          *)
(***************************************************************************)
\* two imports that _FindImportIndices takes for the same
SameImport(a, b) == a.path = b.path /\ a.mediaTypes = b.mediaTypes

\* C36: the list of imports of a session never holds two imports with the
\* same path and the same media types; AddImport of an import that the list
\* holds puts the new import at the position of the one it matches and
\* leaves the others, AddImport of another import appends it, and
\* RemoveImport takes out the import it matches and leaves the others.
C36_OneImportPerPathAndMediaTypes ==
    /\ \A i, j \in 1..Len(subs.imports) :
          SameImport(subs.imports[i], subs.imports[j]) => i = j
    /\ subs.op = "AddImport" =>
          IF \E i \in 1..Len(subs.before) : SameImport(subs.before[i], subs.arg)
          THEN /\ Len(subs.imports) = Len(subs.before)
               /\ \A i \in 1..Len(subs.before) :
                     subs.imports[i] = IF SameImport(subs.before[i], subs.arg) THEN subs.arg
                                       ELSE subs.before[i]
          ELSE subs.imports = Append(subs.before, subs.arg)
    /\ subs.op = "RemoveImport" =>
          subs.imports = SelectSeq(subs.before, LAMBDA m : ~SameImport(m, subs.arg))

\* the first of three imports was added again with other settings: it is
\* replaced at its position
C36_Witness ==
    /\ subs.op = "AddImport"
    /\ Len(subs.before) = 3
    /\ SameImport(subs.before[1], subs.arg)
    /\ subs.before[1] # subs.arg
    /\ Len(subs.imports) = 3
    /\ subs.imports[1] = subs.arg

(***************************************************************************)
(* Properties of Server._request (specification SpecRequest).              *)
(***************************************************************************)
\* C39: _request makes the HTTP call at most twice and authenticates at most
\* once, with force; it authenticates exactly when the first call raised
\* NotAuthenticatedError, and makes the second call, with the new access
\* token, exactly when that authentication succeeded; when the
\* authentication returns False, _request returns False after one call (when
\* it raises, the exception leaves _request after one call); whatever the
\* second call returns or raises, NotAuthenticatedError included, ends
\* _request.
C39_AtMostOneRetryAfterReauthentication ==
    LET calls == request.calls
        auths == request.auths
    IN  /\ Len(calls) <= 2
        /\ Len(auths) <= 1
        /\ \A a \in 1..Len(auths) : auths[a].force /\ auths[a].asked
        /\ auths # <<>> <=>
              (calls # <<>> /\ calls[1].outcome = "unauthorized" /\ request.pc # "auth")
        /\ Len(calls) = 2 <=>
              (auths # <<>> /\ auths[1].outcome = "ok" /\ request.pc # "second")
        /\ Len(calls) = 2 =>
              /\ calls[2].token # calls[1].token
              /\ calls[2].token = request.token
              /\ request.pc = "done"
              /\ request.result = ResultOf(calls[2].outcome)
        /\ (auths # <<>> /\ auths[1].outcome = "failed") =>
              (request.pc = "done" /\ request.result = "False" /\ Len(calls) = 1)
        /\ (auths # <<>> /\ auths[1].outcome = "raised") =>
              (request.pc = "done" /\ request.result = "raised" /\ Len(calls) = 1)
        /\ (request.pc = "done" /\ auths = <<>>) =>
              (Len(calls) = 1 /\ request.result = ResultOf(calls[1].outcome))

\* both HTTP calls raised NotAuthenticatedError: the second one left _request
C39_Witness ==
    /\ request.pc = "done"
    /\ Len(request.calls) = 2
    /\ request.calls[2].outcome = "unauthorized"
    /\ request.result = "NotAuthenticatedError"
    /\ Len(request.auths) = 1

====
